---- MODULE Spec2Model ----
(***************************************************************************)
(* A model of libborr: the borr language-file parser (borr::language), its *)
(* version field (borr::langversion), the text helpers it uses             *)
(* (borr::extensions) and the variable expansion done by getString.        *)
(*                                                                         *)
(* A C++ std::string is a sequence of one-character strings.  Positions    *)
(* are 0-based as in the source.  A size_t is an integer; a negative       *)
(* integer stands for the size_t it is congruent to modulo 2^64, so        *)
(* string::npos (the largest size_t) is -1.                                *)
(***************************************************************************)
EXTENDS Integers, Sequences, FiniteSets, TLC

VARIABLES text, tokens, idx, lang, pc, callbackList, frames, result,
          threads, localTime, iter

vars == <<text, tokens, idx, lang, pc, callbackList, frames, result,
          threads, localTime, iter>>

-----------------------------------------------------------------------------
(* Strings                                                                 *)

\* The std::string with the characters of the TLA+ string s.
Chars(s) == [i \in 1..Len(s) |-> SubSeq(s, i, i)]

\* string::npos, and the value a default langversion holds in each field.
NPOS == -1

\* a >= b on size_t values.
UGe(a, b) ==
    IF a < 0 THEN (b >= 0 \/ a >= b) ELSE (b >= 0 /\ a >= b)

\* str.find(c, pos): the first position >= pos holding the character c.
Find(str, c, pos) ==
    IF pos < 0 \/ ~(\E i \in pos..(Len(str) - 1) : str[i + 1] = c)
    THEN NPOS
    ELSE CHOOSE i \in pos..(Len(str) - 1) :
            /\ str[i + 1] = c
            /\ \A j \in pos..(i - 1) : str[j + 1] # c

\* str.find_first_of(set, pos) and str.find_first_not_of(set, pos).
FindFirstOf(str, set, pos) ==
    IF pos < 0 \/ ~(\E i \in pos..(Len(str) - 1) : str[i + 1] \in set)
    THEN NPOS
    ELSE CHOOSE i \in pos..(Len(str) - 1) :
            /\ str[i + 1] \in set
            /\ \A j \in pos..(i - 1) : str[j + 1] \notin set

FindFirstNotOf(str, set, pos) ==
    IF pos < 0 \/ ~(\E i \in pos..(Len(str) - 1) : str[i + 1] \notin set)
    THEN NPOS
    ELSE CHOOSE i \in pos..(Len(str) - 1) :
            /\ str[i + 1] \notin set
            /\ \A j \in pos..(i - 1) : str[j + 1] \in set

\* str.substr(pos, n) throws std::out_of_range when pos > size().
SubstrThrows(str, pos) == pos < 0 \/ pos > Len(str)

\* str.substr(pos, n) when it does not throw; a count n that wrapped around
\* (negative here) reaches the end of the string.
Substr(str, pos, n) ==
    LET last == IF n < 0 \/ pos + n > Len(str) THEN Len(str) ELSE pos + n
    IN  SubSeq(str, pos + 1, last)

\* str.find(sub): the first position where sub occurs in str.
FindStr(str, sub) ==
    LET At(i) == SubSeq(str, i + 1, i + Len(sub)) = sub
        P == 0..(Len(str) - Len(sub))
    IN  IF \E i \in P : At(i)
        THEN CHOOSE i \in P : At(i) /\ \A j \in 0..(i - 1) : ~At(j)
        ELSE NPOS

\* The default trim characters of trimStart, trimEnd and trim: " \t\r".
DefaultTrim == {" ", "\t", "\r"}

RECURSIVE trimStart(_, _)
trimStart(nonTrimmed, trimChar) ==
    IF nonTrimmed # <<>> /\ Head(nonTrimmed) \in trimChar
    THEN trimStart(Tail(nonTrimmed), trimChar)
    ELSE nonTrimmed

RECURSIVE trimEnd(_, _)
trimEnd(nonTrimmed, trimChar) ==
    IF nonTrimmed # <<>> /\ nonTrimmed[Len(nonTrimmed)] \in trimChar
    THEN trimEnd(SubSeq(nonTrimmed, 1, Len(nonTrimmed) - 1), trimChar)
    ELSE nonTrimmed

trim(nonTrimmed, trimChar) == trimStart(trimEnd(nonTrimmed, trimChar), trimChar)

\* splitString's loop: lastPos and pos are its two cursors, outTokens the
\* tokens pushed so far.
RECURSIVE splitLoop(_, _, _, _, _, _)
splitLoop(str, delimiters, outTokens, maxLen, lastPos, pos) ==
    IF (pos # NPOS \/ lastPos # NPOS) /\ (maxLen < 0 \/ maxLen > Len(outTokens))
    THEN LET token == Substr(str, lastPos, pos - lastPos)
             pushed == IF token # <<>> THEN Append(outTokens, token) ELSE outTokens
             nextLast == IF pos = NPOS THEN NPOS ELSE pos + 1
         IN  splitLoop(str, delimiters, pushed, maxLen, nextLast,
                       FindFirstOf(str, delimiters, nextLast))
    ELSE outTokens

\* splitString that reports success from the second token on only.
splitStringNeedsTwo(str, delimiters, maxLen) ==
    LET lastPos == FindFirstNotOf(str, delimiters, 0)
        out == splitLoop(str, delimiters, <<>>, maxLen, lastPos,
                         FindFirstOf(str, delimiters, lastPos))
    IN  [ok |-> Len(out) > 1, tokens |-> out]

\* splitString that takes no notice of maxLen.
splitStringUnbounded(str, delimiters, maxLen) ==
    LET lastPos == FindFirstNotOf(str, delimiters, 0)
        out == splitLoop(str, delimiters, <<>>, NPOS, lastPos,
                         FindFirstOf(str, delimiters, lastPos))
    IN  [ok |-> Len(out) > 0, tokens |-> out]

\* splitString(str, delimiters, outTokens, maxLen) called with an empty
\* outTokens: the tokens it leaves there, and its return value.
splitString(str, delimiters, maxLen) ==
    LET lastPos == FindFirstNotOf(str, delimiters, 0)
        out == splitLoop(str, delimiters, <<>>, maxLen, lastPos,
                         FindFirstOf(str, delimiters, lastPos))
    IN  [ok |-> Len(out) > 0, tokens |-> out]

\* extensions::stringReplace(str, from, to): the first occurrence of from in
\* str is replaced by to; str is left alone when from does not occur.
stringReplace(str, from, to) ==
    LET p == FindStr(str, from)
    IN  IF p = NPOS THEN str
        ELSE SubSeq(str, 1, p) \o to \o SubSeq(str, p + Len(from) + 1, Len(str))

-----------------------------------------------------------------------------
(* Character classes of the regular expressions                            *)

UpperCase == {"A", "B", "C", "D", "E", "F", "G", "H", "I", "J", "K", "L", "M",
              "N", "O", "P", "Q", "R", "S", "T", "U", "V", "W", "X", "Y", "Z"}

LowerCase == {"a", "b", "c", "d", "e", "f", "g", "h", "i", "j", "k", "l", "m",
              "n", "o", "p", "q", "r", "s", "t", "u", "v", "w", "x", "y", "z"}

DigitSeq == <<"0", "1", "2", "3", "4", "5", "6", "7", "8", "9">>

Digits == {DigitSeq[i] : i \in 1..10}

\* The character with code 96 (the grave accent), which a TLA+ string cannot
\* hold.
Grave == "grave"

\* [A-z_]: the range from A (65) to z (122) holds the letters and the six
\* characters between Z and a.
ClassAz == UpperCase \cup LowerCase \cup {"[", "\\", "]", "^", "_", Grave}

\* [A-z0-9_]
ClassAz09 == ClassAz \cup Digits

\* [\s], and the characters isspace accepts.
ClassSpace == {" ", "\t", "\n", "\r", "\f"}

\* The number of consecutive characters of set in str from the 1-based
\* index i on.
RECURSIVE Span(_, _, _)
Span(str, i, set) ==
    IF i >= 1 /\ i <= Len(str) /\ str[i] \in set
    THEN 1 + Span(str, i + 1, set)
    ELSE 0

-----------------------------------------------------------------------------
(* langversion                                                             *)

\* langversion(): all three fields are string::npos.
NoVersion == [m_major |-> NPOS, m_minor |-> NPOS, m_revision |-> NPOS]

DigitVal(c) == (CHOOSE i \in 1..10 : DigitSeq[i] = c) - 1

RECURSIVE DecValue(_)
DecValue(digits) ==
    IF digits = <<>> THEN 0
    ELSE 10 * DecValue(SubSeq(digits, 1, Len(digits) - 1))
         + DigitVal(digits[Len(digits)])

\* std::stoull(str): leading white space is skipped, then an optional sign,
\* then the longest run of decimal digits is converted and what follows it is
\* ignored; std::invalid_argument when there is no digit.  A minus sign negates the
\* value as a size_t.
stoull(str) ==
    LET s == trimStart(str, ClassSpace)
        signed == s # <<>> /\ Head(s) \in {"+", "-"}
        body == IF signed THEN Tail(s) ELSE s
        n == Span(body, 1, Digits)
        v == DecValue(SubSeq(body, 1, n))
    IN  [ok |-> n > 0,
         value |-> IF signed /\ Head(s) = "-" THEN 0 - v ELSE v]

\* The while loop of langversion::fromString from the test of its condition
\* on; thrown names the exception that leaves it, "none" when it returns.
RECURSIVE verLoop(_, _, _)
verLoop(verField, outVersion, previousPeriod) ==
    LET nextPeriod == Find(verField, ".", previousPeriod)
        prev == IF UGe(previousPeriod, Len(verField) - 1) THEN NPOS
                ELSE previousPeriod
        part == stoull(Substr(verField, prev, nextPeriod - prev))
        target == IF outVersion.m_major = NPOS THEN "m_major"
                  ELSE IF outVersion.m_minor = NPOS THEN "m_minor"
                  ELSE IF outVersion.m_revision = NPOS THEN "m_revision"
                  ELSE "none"
    IN  IF nextPeriod = NPOS \/ target = "none"
        THEN [ver |-> outVersion, thrown |-> "none"]
        ELSE IF SubstrThrows(verField, prev)
        THEN [ver |-> outVersion, thrown |-> "out_of_range"]
        ELSE IF ~part.ok
        THEN [ver |-> outVersion, thrown |-> "invalid_argument"]
        ELSE verLoop(verField, [outVersion EXCEPT ![target] = part.value],
                     nextPeriod + 1)

\* langversion::fromString(verField, outVersion)
langversionFromString(verField, outVersion) == verLoop(verField, outVersion, 0)

-----------------------------------------------------------------------------
(* The line classifier of borr::language                                   *)

LANG_ID_FIELD == Chars("lang_id")
LANG_VER_FIELD == Chars("lang_ver")
LANG_DESC_FIELD == Chars("lang_desc")

\* regex_match against SECTION_REGEX, ^\[[A-z_]([A-z_]+)?\]$
matchSection(s) ==
    /\ Len(s) >= 3
    /\ s[1] = "["
    /\ s[Len(s)] = "]"
    /\ \A i \in 2..(Len(s) - 1) : s[i] \in ClassAz

\* regex_match against TRANSLATION_REGEX,
\* ^[A-z_][A-z0-9_]+(\[\])?[\s]+?=[\s]+?"([^"]+)?"$
\* The name ends at the first white space, as no name character is white
\* space, and "[" and "]" are name characters themselves.
matchTranslation(line) ==
    LET n == Len(line)
        a == Span(line, 2, ClassAz09)
        b == Span(line, 2 + a, ClassSpace)
        eq == 2 + a + b
        c == Span(line, eq + 1, ClassSpace)
        q == eq + 1 + c
    IN  /\ n >= 1
        /\ line[1] \in ClassAz
        /\ a >= 1
        /\ b >= 1
        /\ eq <= n
        /\ line[eq] = "="
        /\ c >= 1
        /\ q < n
        /\ line[q] = "\""
        /\ line[n] = "\""
        /\ \A i \in (q + 1)..(n - 1) : line[i] # "\""

\* regex_search for VARIABLE_REGEX, \$\{[A-z_][A-z0-9_]+\}, at the 1-based
\* index p: the length of the match there, 0 when there is none.
matchVariableAt(s, p) ==
    LET a == Span(s, p + 3, ClassAz09)
    IN  IF /\ p + 4 <= Len(s)
           /\ s[p] = "$"
           /\ s[p + 1] = "{"
           /\ s[p + 2] \in ClassAz
           /\ a >= 1
           /\ p + 3 + a <= Len(s)
           /\ s[p + 3 + a] = "}"
        THEN 4 + a
        ELSE 0

\* language::containsVariable(translation, outVarName): the leftmost match
\* with its two kinds of delimiters trimmed off.
containsVariable(translation) ==
    LET P == {p \in 1..Len(translation) : matchVariableAt(translation, p) > 0}
        first(S) == CHOOSE x \in S : \A y \in S : x <= y
        matches == {SubSeq(translation, p, p + matchVariableAt(translation, p) - 1) :
                       p \in {first(S) : S \in {P} \ {{}}}}
    IN  IF matches = {} THEN [found |-> FALSE, outVarName |-> <<>>]
        ELSE CHOOSE r \in {[found |-> TRUE,
                            outVarName |-> trim(trim(m, {"$"}), {"{", "}"})] :
                               m \in matches} : TRUE

\* isEmptyOrComment that looks at the first character of the untrimmed line.
isEmptyOrCommentNoTrim(line) ==
    line = <<>> \/ line[1] = "#"

\* language::isEmptyOrComment(line)
isEmptyOrComment(line) ==
    \/ trim(line, DefaultTrim) = <<>>
    \/ trim(line, DefaultTrim)[1] = "#"

\* language::isMultilineField(field) for a field of two characters or more;
\* the two reverse iterators leave a shorter field.
isMultilineField(field) ==
    field[Len(field)] = "]" /\ field[Len(field) - 1] = "["

\* language::isSection(line, outSection): outSection is written on a match
\* only.
isSection(line, outSection) ==
    IF ~matchSection(trim(line, DefaultTrim))
    THEN [ok |-> FALSE, outSection |-> outSection]
    ELSE [ok |-> TRUE, outSection |-> trim(line, {"[", "]"})]

\* language::isTranslation(line, outFieldName, outTranslation)
isTranslation(line) ==
    LET posOfDelim == Find(line, "=", 0)
    IN  IF ~matchTranslation(line)
        THEN [ok |-> FALSE, outFieldName |-> <<>>, outTranslation |-> <<>>]
        ELSE [ok |-> TRUE,
              outFieldName |->
                  trim(Substr(line, 0, posOfDelim - 1), DefaultTrim),
              outTranslation |->
                  trim(Substr(line, posOfDelim + 1, NPOS),
                       {"\"", " ", "\t", "\r"})]

\* regex_search for COMMENT_REGEX, #[^\n]+[^"]$: the 0-based position of the
\* leftmost match, which reaches the end of the line; NPOS when none.
commentMatch(copy) ==
    LET n == Len(copy)
        At(p) == /\ copy[p + 1] = "#"
                 /\ n - (p + 1) >= 2
                 /\ \A i \in (p + 2)..(n - 1) : copy[i] # "\n"
                 /\ copy[n] # "\""
        P == {p \in 0..(n - 1) : At(p)}
    IN  IF P = {} THEN NPOS ELSE CHOOSE p \in P : \A r \in P : p <= r

\* language::removeInlineComments(line)
removeInlineComments(line) ==
    LET p == commentMatch(line)
        match == SubSeq(line, p + 1, Len(line))
        at == FindStr(line, match)
        copy == IF p = NPOS THEN line
                ELSE SubSeq(line, 1, at)
                     \o SubSeq(line, at + Len(match) + 1, Len(line))
    IN  trim(copy, DefaultTrim)

-----------------------------------------------------------------------------
(* The language object                                                     *)

\* A std::map with no entry; a map is a function from its keys.
EmptyMap == [k \in {} |-> <<>>]

Put(map, k, v) == [x \in DOMAIN map \cup {k} |-> IF x = k THEN v ELSE map[x]]

\* The object language() constructs, which is also what clear() leaves.
NewLanguage ==
    [m_langId |-> <<>>,
     m_langDescription |-> <<>>,
     m_langVer |-> NoVersion,
     m_currentSection |-> <<>>,
     m_translationDict |-> EmptyMap]

\* getSection that returns an empty section for a name the document lacks.
getSectionAlways(l, sectionName) ==
    IF sectionName \in DOMAIN l.m_translationDict
    THEN [has |-> TRUE, val |-> l.m_translationDict[sectionName]]
    ELSE [has |-> TRUE, val |-> EmptyMap]

\* language::getSection(sectionName): an optional section.
getSection(l, sectionName) ==
    IF sectionName \in DOMAIN l.m_translationDict
    THEN [has |-> TRUE, val |-> l.m_translationDict[sectionName]]
    ELSE [has |-> FALSE, val |-> EmptyMap]

\* storeTranslation with the new line put before the stored value of a
\* multiline field.
storeTranslationPrepend(section, field, translation) ==
    LET trimmedField == trim(field, {"[", "]"})
    IN  IF trimmedField \in DOMAIN section /\ isMultilineField(field)
        THEN Put(section, trimmedField,
                 translation \o <<"\n">> \o section[trimmedField])
        ELSE IF trimmedField \in DOMAIN section THEN section
        ELSE Put(section, trimmedField, translation)

\* storeTranslation with an assignment in the place of emplace.
storeTranslationAssign(section, field, translation) ==
    LET trimmedField == trim(field, {"[", "]"})
    IN  IF trimmedField \in DOMAIN section /\ isMultilineField(field)
        THEN Put(section, trimmedField,
                 section[trimmedField] \o <<"\n">> \o translation)
        ELSE Put(section, trimmedField, translation)

\* storeTranslation that files the translation under the name as declared,
\* brackets included.
storeTranslationRawKey(section, field, translation) ==
    IF field \in DOMAIN section /\ isMultilineField(field)
    THEN Put(section, field, section[field] \o <<"\n">> \o translation)
    ELSE IF field \in DOMAIN section THEN section
    ELSE Put(section, field, translation)

\* The end of language::parseLine: the current section after the translation
\* of field was put into it.  A map's emplace leaves an entry that exists as
\* it is.
storeTranslation(section, field, translation) ==
    LET trimmedField == trim(field, {"[", "]"})
    IN  IF trimmedField \in DOMAIN section /\ isMultilineField(field)
        THEN Put(section, trimmedField,
                 section[trimmedField] \o <<"\n">> \o translation)
        ELSE IF trimmedField \in DOMAIN section THEN section
        ELSE Put(section, trimmedField, translation)

\* parseLine that files a field of the root scope with another name than
\* the three reserved ones in the dictionary, under the empty section name.
parseLineRootStores(l, line) ==
    LET commentlessLine == removeInlineComments(line)
        sect == isSection(commentlessLine, l.m_currentSection)
        tr == isTranslation(commentlessLine)
        field == tr.outFieldName
        translation == tr.outTranslation
        ver == langversionFromString(translation, l.m_langVer)
        section == IF getSection(l, l.m_currentSection).has
                   THEN l.m_translationDict[l.m_currentSection]
                   ELSE EmptyMap
    IN  IF isEmptyOrComment(line) THEN [lang |-> l, thrown |-> "none"]
        ELSE IF sect.ok
        THEN [lang |-> [l EXCEPT !.m_currentSection = sect.outSection],
              thrown |-> "none"]
        ELSE IF ~tr.ok THEN [lang |-> l, thrown |-> "none"]
        ELSE IF l.m_currentSection = <<>>
        THEN IF field = LANG_DESC_FIELD
             THEN [lang |-> [l EXCEPT !.m_langDescription = translation],
                   thrown |-> "none"]
             ELSE IF field = LANG_ID_FIELD
             THEN [lang |-> [l EXCEPT !.m_langId = translation],
                   thrown |-> "none"]
             ELSE IF field = LANG_VER_FIELD
             THEN [lang |-> [l EXCEPT !.m_langVer = ver.ver],
                   thrown |-> ver.thrown]
             ELSE [lang |-> [l EXCEPT !.m_translationDict =
                                Put(l.m_translationDict, l.m_currentSection,
                                    storeTranslation(section, field, translation))],
                   thrown |-> "none"]
        ELSE [lang |-> [l EXCEPT !.m_translationDict =
                           Put(l.m_translationDict, l.m_currentSection,
                               storeTranslation(section, field, translation))],
              thrown |-> "none"]

\* parseLine that makes an entry of the dictionary for every header.
parseLineHeaderStores(l, line) ==
    LET commentlessLine == removeInlineComments(line)
        sect == isSection(commentlessLine, l.m_currentSection)
        tr == isTranslation(commentlessLine)
        field == tr.outFieldName
        translation == tr.outTranslation
        ver == langversionFromString(translation, l.m_langVer)
        section == IF getSection(l, l.m_currentSection).has
                   THEN l.m_translationDict[l.m_currentSection]
                   ELSE EmptyMap
    IN  IF isEmptyOrComment(line) THEN [lang |-> l, thrown |-> "none"]
        ELSE IF sect.ok
        THEN [lang |-> [l EXCEPT !.m_currentSection = sect.outSection,
                                 !.m_translationDict =
                                     IF sect.outSection \in DOMAIN l.m_translationDict
                                     THEN l.m_translationDict
                                     ELSE Put(l.m_translationDict,
                                              sect.outSection, EmptyMap)],
              thrown |-> "none"]
        ELSE IF ~tr.ok THEN [lang |-> l, thrown |-> "none"]
        ELSE IF l.m_currentSection = <<>>
        THEN IF field = LANG_DESC_FIELD
             THEN [lang |-> [l EXCEPT !.m_langDescription = translation],
                   thrown |-> "none"]
             ELSE IF field = LANG_ID_FIELD
             THEN [lang |-> [l EXCEPT !.m_langId = translation],
                   thrown |-> "none"]
             ELSE IF field = LANG_VER_FIELD
             THEN [lang |-> [l EXCEPT !.m_langVer = ver.ver],
                   thrown |-> ver.thrown]
             ELSE [lang |-> l, thrown |-> "none"]
        ELSE [lang |-> [l EXCEPT !.m_translationDict =
                           Put(l.m_translationDict, l.m_currentSection,
                               storeTranslation(section, field, translation))],
              thrown |-> "none"]

\* parseLine that begins a section anew at its header: the fields stored
\* under the name of the header are dropped.
parseLineHeaderClears(l, line) ==
    LET commentlessLine == removeInlineComments(line)
        sect == isSection(commentlessLine, l.m_currentSection)
        tr == isTranslation(commentlessLine)
        field == tr.outFieldName
        translation == tr.outTranslation
        ver == langversionFromString(translation, l.m_langVer)
        section == IF getSection(l, l.m_currentSection).has
                   THEN l.m_translationDict[l.m_currentSection]
                   ELSE EmptyMap
    IN  IF isEmptyOrComment(line) THEN [lang |-> l, thrown |-> "none"]
        ELSE IF sect.ok
        THEN [lang |-> [l EXCEPT !.m_currentSection = sect.outSection,
                                 !.m_translationDict =
                                     [x \in DOMAIN l.m_translationDict
                                             \ {sect.outSection} |->
                                         l.m_translationDict[x]]],
              thrown |-> "none"]
        ELSE IF ~tr.ok THEN [lang |-> l, thrown |-> "none"]
        ELSE IF l.m_currentSection = <<>>
        THEN IF field = LANG_DESC_FIELD
             THEN [lang |-> [l EXCEPT !.m_langDescription = translation],
                   thrown |-> "none"]
             ELSE IF field = LANG_ID_FIELD
             THEN [lang |-> [l EXCEPT !.m_langId = translation],
                   thrown |-> "none"]
             ELSE IF field = LANG_VER_FIELD
             THEN [lang |-> [l EXCEPT !.m_langVer = ver.ver],
                   thrown |-> ver.thrown]
             ELSE [lang |-> l, thrown |-> "none"]
        ELSE [lang |-> [l EXCEPT !.m_translationDict =
                           Put(l.m_translationDict, l.m_currentSection,
                               storeTranslation(section, field, translation))],
              thrown |-> "none"]

\* language::parseLine(line) on the object l: the object it leaves and the
\* exception that leaves it, "none" when it returns.
parseLine(l, line) ==
    LET commentlessLine == removeInlineComments(line)
        sect == isSection(commentlessLine, l.m_currentSection)
        tr == isTranslation(commentlessLine)
        field == tr.outFieldName
        translation == tr.outTranslation
        ver == langversionFromString(translation, l.m_langVer)
        section == IF getSection(l, l.m_currentSection).has
                   THEN l.m_translationDict[l.m_currentSection]
                   ELSE EmptyMap
    IN  IF isEmptyOrComment(line) THEN [lang |-> l, thrown |-> "none"]
        ELSE IF sect.ok
        THEN [lang |-> [l EXCEPT !.m_currentSection = sect.outSection],
              thrown |-> "none"]
        ELSE IF ~tr.ok THEN [lang |-> l, thrown |-> "none"]
        ELSE IF l.m_currentSection = <<>>
        THEN IF field = LANG_DESC_FIELD
             THEN [lang |-> [l EXCEPT !.m_langDescription = translation],
                   thrown |-> "none"]
             ELSE IF field = LANG_ID_FIELD
             THEN [lang |-> [l EXCEPT !.m_langId = translation],
                   thrown |-> "none"]
             ELSE IF field = LANG_VER_FIELD
             THEN [lang |-> [l EXCEPT !.m_langVer = ver.ver],
                   thrown |-> ver.thrown]
             ELSE [lang |-> l, thrown |-> "none"]
        ELSE [lang |-> [l EXCEPT !.m_translationDict =
                           Put(l.m_translationDict, l.m_currentSection,
                               storeTranslation(section, field, translation))],
              thrown |-> "none"]

-----------------------------------------------------------------------------
(* Variable expansion                                                      *)

\* The callbacks a host registers: each maps the variable's name to a text.
Callbacks == {"cbText", "cbSite", "cbDate"}

callbackResult(cb, varName) ==
    CASE cb = "cbText" -> Chars("example.com")
      [] cb = "cbSite" -> Chars("${site}")
      [] cb = "cbDate" -> Chars("${date}")

\* The local times a default expander may read.
Clocks ==
    {[tm_year |-> 123, tm_mon |-> 0, tm_mday |-> 28,
      tm_hour |-> 9, tm_min |-> 5, tm_sec |-> 59],
     [tm_year |-> 123, tm_mon |-> 0, tm_mday |-> 29,
      tm_hour |-> 10, tm_min |-> 0, tm_sec |-> 0]}

\* The tm that localtime returns a pointer to, before any call of it.
NoTime ==
    [tm_year |-> 0, tm_mon |-> 0, tm_mday |-> 0,
     tm_hour |-> 0, tm_min |-> 0, tm_sec |-> 0]

\* operator<< of an int into a stream.
RECURSIVE IntToStr(_)
IntToStr(n) ==
    IF n < 10 THEN <<DigitSeq[n + 1]>>
    ELSE IntToStr(n \div 10) \o <<DigitSeq[(n % 10) + 1]>>

resourcesBorrDescription == Chars("libborr")
resourcesBorrVersion == Chars("1.0.0")
resourcesOperatingSystemName == Chars("Linux")
resourcesLibUrl == Chars("https://github.com/SimonCahill/libborr")

dateExpander(clock) ==
    IntToStr(clock.tm_year + 1900) \o <<"-">> \o IntToStr(clock.tm_mon)
        \o <<"-">> \o IntToStr(clock.tm_mday)

timeExpander(clock) ==
    IntToStr(clock.tm_hour) \o <<":">> \o IntToStr(clock.tm_min)
        \o <<":">> \o IntToStr(clock.tm_sec)

libExpander == resourcesBorrDescription \o Chars(" v") \o resourcesBorrVersion

osExpander == resourcesOperatingSystemName

liburlExpander == resourcesLibUrl

\* language::_defaultExpandersList: the names it holds, and the text its
\* expander for varName returns when the local time is clock.
defaultExpanderNames ==
    {Chars("date"), Chars("time"), Chars("lib"), Chars("os"), Chars("liburl")}

defaultExpandersList(varName, clock) ==
    CASE varName = Chars("date") -> dateExpander(clock)
      [] varName = Chars("time") -> timeExpander(clock)
      [] varName = Chars("lib") -> libExpander
      [] varName = Chars("os") -> osExpander
      [] varName = Chars("liburl") -> liburlExpander

\* expandVariable with the default expanders looked up before the callbacks.
expandVariableDefaultsFirst(varName, cbList, clock) ==
    LET split == splitString(varName, {":"}, 2)
    IN  IF varName \in defaultExpanderNames
        THEN [kind |-> "value", value |-> defaultExpandersList(varName, clock)]
        ELSE IF varName \in DOMAIN cbList
        THEN [kind |-> "value",
              value |-> callbackResult(cbList[varName], varName)]
        ELSE IF Find(varName, ":", 0) # NPOS
        THEN IF ~split.ok \/ Len(split.tokens) # 2
             THEN [kind |-> "value", value |-> <<>>]
             ELSE [kind |-> "getString",
                   section |-> split.tokens[1], field |-> split.tokens[2]]
        ELSE [kind |-> "value", value |-> <<>>]

\* expandVariable without the default expanders.
expandVariableNoDefaults(varName, cbList, clock) ==
    LET split == splitString(varName, {":"}, 2)
    IN  IF varName \in DOMAIN cbList
        THEN [kind |-> "value",
              value |-> callbackResult(cbList[varName], varName)]
        ELSE IF Find(varName, ":", 0) # NPOS
        THEN IF ~split.ok \/ Len(split.tokens) # 2
             THEN [kind |-> "value", value |-> <<>>]
             ELSE [kind |-> "getString",
                   section |-> split.tokens[1], field |-> split.tokens[2]]
        ELSE [kind |-> "value", value |-> <<>>]

\* expandVariable that looks at no callback registered after the document
\* was made: it sees an empty list.
expandVariableNoCallbacks(varName, cbList, clock) ==
    LET split == splitString(varName, {":"}, 2)
    IN  IF varName \in defaultExpanderNames
        THEN [kind |-> "value", value |-> defaultExpandersList(varName, clock)]
        ELSE IF Find(varName, ":", 0) # NPOS
        THEN IF ~split.ok \/ Len(split.tokens) # 2
             THEN [kind |-> "value", value |-> <<>>]
             ELSE [kind |-> "getString",
                   section |-> split.tokens[1], field |-> split.tokens[2]]
        ELSE [kind |-> "value", value |-> <<>>]

\* language::expandVariable(varName) up to its call of getString: either the
\* text it returns, or the section and field it calls getString with.
expandVariable(varName, cbList, clock) ==
    LET split == splitString(varName, {":"}, 2)
    IN  IF varName \in DOMAIN cbList
        THEN [kind |-> "value",
              value |-> callbackResult(cbList[varName], varName)]
        ELSE IF varName \in defaultExpanderNames
        THEN [kind |-> "value", value |-> defaultExpandersList(varName, clock)]
        ELSE IF Find(varName, ":", 0) # NPOS
        THEN IF ~split.ok \/ Len(split.tokens) # 2
             THEN [kind |-> "value", value |-> <<>>]
             ELSE [kind |-> "getString",
                   section |-> split.tokens[1], field |-> split.tokens[2]]
        ELSE [kind |-> "value", value |-> <<>>]

\* "${" + varName + "}"
Placeholder(varName) == <<"$", "{">> \o varName \o <<"}">>

-----------------------------------------------------------------------------
(* The texts parsed                                                        *)

\* The largest number of lines of a text made of VersionLines, of
\* SectionLines, and of field lines after the header of an expansion text.
MaxVerLines == 3
MaxSectLines == 4
MaxFields == 2
MaxOddLines == 2
MaxRootLines == 3
MaxInputLen == 4

\* Lines about the root scope: version fields of every shape, the other
\* root fields, a header, and lines that declare nothing.
VersionLines ==
    {Chars("lang_ver = \"1.9.0\""),
     Chars("lang_ver = \"1.2\""),
     Chars("lang_ver = \"1.2.3.4\""),
     Chars("lang_ver = \"1..3\""),
     Chars("lang_ver = \"abc\""),
     Chars("lang_id = \"en\""),
     Chars("[home]"),
     Chars("???"),
     <<>>}

\* Lines about sections: two headers and declarations of one key in both
\* syntaxes, with several values.
SectionLines ==
    {Chars("[home]"),
     Chars("[menu]"),
     Chars("title = \"Hi\""),
     Chars("title = \"Yo\""),
     Chars("title[] = \"A\""),
     Chars("title[] = \"B\"")}

\* Field lines with variables: a field of the same section, a field of a
\* named section, a default expander and a name a host registers.
ExpandLines ==
    {Chars("name = \"Ann\""),
     Chars("msg = \"Hi ${name}\""),
     Chars("ref = \"<${sec:name}>\""),
     Chars("day = \"${date}\""),
     Chars("web = \"${site}/${site}\"")}

SeqsUpTo(pool, n) == UNION {[1..k -> pool] : k \in 0..n}

\* The lines joined by a newline each.
RECURSIVE JoinLines(_)
JoinLines(ls) ==
    IF ls = <<>> THEN <<>>
    ELSE IF Len(ls) = 1 THEN ls[1]
    ELSE ls[1] \o <<"\n">> \o JoinLines(Tail(ls))

\* Lines that are no header and no translation line of the file format, next
\* to one root field: blanks, a comment, and bracketed names that are no
\* identifiers.
OddLines ==
    {Chars("???"),
     Chars("  "),
     Chars("# c"),
     Chars("[[]"),
     Chars("[^]"),
     Chars("lang_id = \"en\"")}

\* A section with one field, and odd lines after it.
OddDocs ==
    {JoinLines(<<Chars("[menu]"), Chars("title = \"Hi\"")>> \o ls) :
        ls \in SeqsUpTo(OddLines, MaxOddLines)}

\* Lines with the reserved names and with another name, before a header
\* and after it, and a version with the "v" in front.
RootLines ==
    {Chars("lang_id = \"en\""),
     Chars("lang_id = \"fr\""),
     Chars("lang_desc = \"d\""),
     Chars("lang_ver = \"v1.0.0\""),
     Chars("title = \"Hi\""),
     Chars("[menu]")}

RootDocs == {JoinLines(ls) : ls \in SeqsUpTo(RootLines, MaxRootLines)}

ParseDocs ==
    {JoinLines(ls) : ls \in SeqsUpTo(VersionLines, MaxVerLines)}
        \cup {JoinLines(ls) : ls \in SeqsUpTo(SectionLines, MaxSectLines)}
        \cup OddDocs
        \cup RootDocs

ExpandDocs ==
    {JoinLines(<<Chars("[sec]")>> \o ls) : ls \in SeqsUpTo(ExpandLines, MaxFields)}

\* The names a host registers callbacks for: a name of its own and the name
\* of a default expander.
ExpanderNames == {Chars("site"), Chars("date")}

\* The names a caller looks up: those the document holds and one it does not.
LookupSections == DOMAIN lang.m_translationDict \cup {Chars("nosuch")}

LookupFields ==
    UNION {DOMAIN lang.m_translationDict[x] : x \in DOMAIN lang.m_translationDict}
        \cup {Chars("nosuch")}

-----------------------------------------------------------------------------
(* The state machine                                                       *)
(* pc is "start" before fromString is called, "parsing" inside its loop,   *)
(* "ready" once it returned the object lang, "thrown" once an exception    *)
(* left it, and "expanding" inside the loop of getString.  result is the   *)
(* operation called last, with its arguments and what it returned.         *)

\* string_view::find(sub, pos)
FindFrom(str, sub, pos) ==
    LET At(i) == SubSeq(str, i + 1, i + Len(sub)) = sub
        P == IF pos < 0 THEN {} ELSE pos..(Len(str) - Len(sub))
    IN  IF \E i \in P : At(i)
        THEN CHOOSE i \in P : At(i) /\ \A j \in P : At(j) => i <= j
        ELSE NPOS

\* StringSplit::Iterator(): the iterator that end() returns.
IteratorEnd ==
    [m_tokenStart |-> 0, m_tokenEnd |-> 0, m_input |-> <<>>,
     m_delimiter |-> <<>>, m_done |-> TRUE]

\* StringSplit::Iterator(input, delimiter), which begin() returns a copy of.
IteratorNew(input, delimiter) ==
    [m_tokenStart |-> 0, m_tokenEnd |-> FindFrom(input, delimiter, 0),
     m_input |-> input, m_delimiter |-> delimiter, m_done |-> FALSE]

\* StringSplit::Iterator::operator*
IteratorDeref(it) ==
    Substr(it.m_input, it.m_tokenStart, it.m_tokenEnd - it.m_tokenStart)

\* StringSplit::Iterator::operator++
IteratorInc(it) ==
    IF it.m_tokenEnd = NPOS THEN [it EXCEPT !.m_done = TRUE]
    ELSE [it EXCEPT !.m_tokenStart = it.m_tokenEnd + Len(it.m_delimiter),
                    !.m_tokenEnd =
                        FindFrom(it.m_input, it.m_delimiter,
                                 it.m_tokenEnd + Len(it.m_delimiter))]

\* StringSplit::Iterator::operator!=
IteratorNe(it, other) == it.m_done /\ other.m_done

Nullopt == [has |-> FALSE, val |-> <<>>]

Some(v) == [has |-> TRUE, val |-> v]

Start(t) ==
    /\ text = t
    /\ tokens = <<>>
    /\ idx = 0
    /\ lang = NewLanguage
    /\ pc = "start"
    /\ callbackList = EmptyMap
    /\ frames = <<>>
    /\ result = [op |-> "none"]
    /\ threads = <<>>
    /\ localTime = NoTime
    /\ iter = IteratorEnd

Init == \E t \in ExpandDocs : Start(t)

InitParse == \E t \in ParseDocs : Start(t)

\* language::fromString(fContents) up to its loop.
FromString ==
    /\ pc = "start"
    /\ LET split == splitString(text, {"\n"}, NPOS)
       IN  /\ tokens' = split.tokens
           /\ pc' = IF split.ok THEN "parsing" ELSE "thrown"
           /\ result' = [op |-> "fromString",
                         thrown |-> IF split.ok THEN "none" ELSE "runtime_error"]
    /\ lang' = NewLanguage
    /\ idx' = 1
    /\ UNCHANGED <<text, callbackList, frames,
                 threads, localTime, iter>>

\* One turn of the loop of language::fromString, and its return after the
\* last line.
ParseLine ==
    /\ pc = "parsing"
    /\ idx <= Len(tokens)
    /\ LET r == parseLine(lang, tokens[idx])
       IN  /\ lang' = r.lang
           /\ pc' = IF r.thrown # "none" THEN "thrown"
                    ELSE IF idx = Len(tokens) THEN "ready"
                    ELSE "parsing"
           /\ result' = [op |-> "fromString", thrown |-> r.thrown]
    /\ idx' = idx + 1
    /\ UNCHANGED <<text, tokens, callbackList, frames,
                 threads, localTime, iter>>

\* language::getSection(sectionName) called by the host.
GetSection ==
    /\ pc = "ready"
    /\ \E sectionName \in LookupSections :
          result' = [op |-> "getSection", section |-> sectionName,
                     value |-> getSection(lang, sectionName)]
    /\ UNCHANGED <<text, tokens, idx, lang, pc, callbackList, frames,
                 threads, localTime, iter>>

\* getString that keeps the section it was asked for as the current one.
GetStringKeepsSection ==
    /\ pc = "ready"
    /\ \E section \in LookupSections, field \in LookupFields,
          expandVariables \in BOOLEAN :
          LET sect == getSection(lang, section)
              found == sect.has /\ field \in DOMAIN sect.val
          IN  /\ result' = [op |-> "getString", section |-> section,
                            field |-> field,
                            expandVariables |-> expandVariables,
                            value |-> Nullopt]
              /\ pc' = IF found THEN "expanding" ELSE "ready"
              /\ frames' = IF found
                           THEN <<[section |-> section, field |-> field,
                                   translation |-> sect.val[field]]>>
                           ELSE <<>>
              /\ lang' = [lang EXCEPT !.m_currentSection = section]
    /\ UNCHANGED <<text, tokens, idx, callbackList,
                 threads, localTime, iter>>

\* language::getString(section, field, expandVariables) up to its loop.
GetString ==
    /\ pc = "ready"
    /\ \E section \in LookupSections, field \in LookupFields,
          expandVariables \in BOOLEAN :
          LET sect == getSection(lang, section)
              found == sect.has /\ field \in DOMAIN sect.val
          IN  /\ result' = [op |-> "getString", section |-> section,
                            field |-> field,
                            expandVariables |-> expandVariables,
                            value |-> Nullopt]
              /\ pc' = IF found THEN "expanding" ELSE "ready"
              /\ frames' = IF found
                           THEN <<[section |-> section, field |-> field,
                                   translation |-> sect.val[field]]>>
                           ELSE <<>>
    /\ UNCHANGED <<text, tokens, idx, lang, callbackList,
                 threads, localTime, iter>>

\* One test of the loop condition of getString in the innermost call of
\* it, a frame of frames: either one variable is replaced (or the call of
\* getString that expandVariable makes begins), or the call returns its
\* translation, to the host or into the call that waits for it.
ExpandStep ==
    /\ pc = "expanding"
    /\ \E clock \in Clocks, top \in {frames[Len(frames)]} :
       \E cv \in {containsVariable(top.translation)} :
       \E ev \in {expandVariable(cv.outVarName, callbackList, clock)} :
          LET n == Len(frames)
              callee == getSection(lang, ev.section)
              replaced(f, v) ==
                  CHOOSE r \in {[f EXCEPT !.translation =
                                    stringReplace(f.translation, Placeholder(name), v)] :
                                name \in {containsVariable(f.translation).outVarName}} :
                      TRUE
          IN  IF cv.found /\ ev.kind = "value"
              THEN /\ frames' = [frames EXCEPT ![n] = replaced(top, ev.value)]
                   /\ UNCHANGED <<pc, result>>
              ELSE IF cv.found /\ callee.has /\ ev.field \in DOMAIN callee.val
              THEN /\ frames' = Append(frames,
                                   [section |-> ev.section, field |-> ev.field,
                                    translation |-> callee.val[ev.field]])
                   /\ UNCHANGED <<pc, result>>
              ELSE IF cv.found
              THEN /\ frames' = [frames EXCEPT ![n] = replaced(top, <<>>)]
                   /\ UNCHANGED <<pc, result>>
              ELSE IF n = 1
              THEN /\ frames' = <<>>
                   /\ pc' = "ready"
                   /\ result' = [result EXCEPT !.value = Some(top.translation)]
              ELSE /\ frames' = Append(SubSeq(frames, 1, n - 2),
                                       replaced(frames[n - 1], top.translation))
                   /\ UNCHANGED <<pc, result>>
    /\ UNCHANGED <<text, tokens, idx, lang, callbackList,
                 threads, localTime, iter>>

\* No call of the language object is under way.
Idle == pc \in {"start", "ready", "thrown"}

\* addVarExpansionCallback that assigns: a registered name gets the new
\* callback.
AddVarExpansionCallbackOverwrite ==
    /\ Idle
    /\ \E varName \in ExpanderNames, cb \in Callbacks :
          LET inserted == varName \notin DOMAIN callbackList
          IN  /\ callbackList' = Put(callbackList, varName, cb)
              /\ result' = [op |-> "addVarExpansionCallback",
                            varName |-> varName, cb |-> cb, value |-> inserted]
    /\ UNCHANGED <<text, tokens, idx, lang, pc, frames,
                 threads, localTime, iter>>

\* removeVarExpansionCallback that clears the whole list.
RemoveVarExpansionCallbackAll ==
    /\ Idle
    /\ \E varName \in ExpanderNames :
          /\ callbackList' = EmptyMap
          /\ result' = [op |-> "removeVarExpansionCallback", varName |-> varName,
                        erased |-> varName \in DOMAIN callbackList]
    /\ UNCHANGED <<text, tokens, idx, lang, pc, frames,
                 threads, localTime, iter>>

\* language::addVarExpansionCallback(varName, cb): try_emplace.
AddVarExpansionCallback ==
    /\ Idle
    /\ \E varName \in ExpanderNames, cb \in Callbacks :
          LET inserted == varName \notin DOMAIN callbackList
          IN  /\ callbackList' = IF inserted THEN Put(callbackList, varName, cb)
                                 ELSE callbackList
              /\ result' = [op |-> "addVarExpansionCallback",
                            varName |-> varName, cb |-> cb, value |-> inserted]
    /\ UNCHANGED <<text, tokens, idx, lang, pc, frames,
                 threads, localTime, iter>>

\* language::removeVarExpansionCallback(varName)
RemoveVarExpansionCallback ==
    /\ Idle
    /\ \E varName \in ExpanderNames :
          /\ callbackList' = [x \in DOMAIN callbackList \ {varName} |->
                                 callbackList[x]]
          /\ result' = [op |-> "removeVarExpansionCallback", varName |-> varName,
                        erased |-> varName \in DOMAIN callbackList]
    /\ UNCHANGED <<text, tokens, idx, lang, pc, frames,
                 threads, localTime, iter>>

Next ==
    \/ FromString
    \/ ParseLine
    \/ GetSection
    \/ GetString
    \/ ExpandStep
    \/ AddVarExpansionCallback
    \/ RemoveVarExpansionCallback

\* A host that registers no callback.
NextParse ==
    \/ FromString
    \/ ParseLine
    \/ GetSection
    \/ GetString
    \/ ExpandStep

Spec == Init /\ [][Next]_vars

\* The loop of getString goes on as long as its condition holds.
FairSpec == Spec /\ WF_vars(ExpandStep)

SpecParse == InitParse /\ [][NextParse]_vars

-----------------------------------------------------------------------------
(* What the claims speak of                                                *)

\* The number of lines of the text that parseLine has been called with.
Processed == IF pc \in {"parsing", "ready", "expanding"} THEN idx - 1 ELSE 0

Parsed == pc \in {"ready", "expanding"}

\* What each of the lines i..k declares, when the section cur is current
\* before line i: whether it is a translation line (and neither a comment nor
\* a header), the section current when the line is reached (the empty name
\* in the root scope), and the field and the value the line gives; whether
\* it is taken for a header, and the name the header gives.
RECURSIVE DeclsFrom(_, _, _)
DeclsFrom(cur, i, k) ==
    IF i > k THEN <<>>
    ELSE LET c == removeInlineComments(tokens[i])
             skip == isEmptyOrComment(tokens[i])
             hdr == isSection(c, cur)
             tr == isTranslation(c)
         IN  <<[is |-> ~skip /\ ~hdr.ok /\ tr.ok,
                section |-> cur,
                field |-> tr.outFieldName,
                translation |-> tr.outTranslation,
                header |-> ~skip /\ hdr.ok,
                name |-> hdr.outSection]>>
             \o DeclsFrom(IF ~skip /\ hdr.ok THEN hdr.outSection ELSE cur,
                          i + 1, k)

\* The declarations of the first k lines.
Decls(k) == DeclsFrom(<<>>, 1, k)

Marker == <<"[", "]">>

HasMarker(field) ==
    Len(field) >= 2 /\ SubSeq(field, Len(field) - 1, Len(field)) = Marker

\* s split at every character c, empty parts kept.
RECURSIVE SplitKeep(_, _)
SplitKeep(s, c) ==
    LET p == Find(s, c, 0)
    IN  IF p = NPOS THEN <<s>>
        ELSE <<SubSeq(s, 1, p)>> \o SplitKeep(SubSeq(s, p + 2, Len(s)), c)

\* v is M.N.R: three parts between dots, each a non-empty run of digits.
WellFormedVersion(v) ==
    LET parts == SplitKeep(v, ".")
    IN  /\ Len(parts) = 3
        /\ \A i \in 1..3 :
              /\ parts[i] # <<>>
              /\ \A j \in 1..Len(parts[i]) : parts[i][j] \in Digits

VersionOf(v) ==
    LET parts == SplitKeep(v, ".")
    IN  [m_major |-> DecValue(parts[1]),
         m_minor |-> DecValue(parts[2]),
         m_revision |-> DecValue(parts[3])]

\* The lines among the declarations d that declare lang_ver in the root scope.
RootVersionLines(d) ==
    {i \in 1..Len(d) : /\ d[i].is
                       /\ d[i].section = <<>>
                       /\ d[i].field = LANG_VER_FIELD}

-----------------------------------------------------------------------------
\* C1: when the root scope of the parsed document holds exactly one
\* lang_ver line and its value is M.N.R, the version of the document is
\* major M, minor N, revision R.
C1_VersionTriple ==
    Parsed =>
        LET d == Decls(Len(tokens))
        IN  Cardinality(RootVersionLines(d)) = 1 =>
                \A i \in RootVersionLines(d) :
                    WellFormedVersion(d[i].translation) =>
                        lang.m_langVer = VersionOf(d[i].translation)

-----------------------------------------------------------------------------
\* The lines of d that declare the name n, in either syntax, while the
\* section s is current.
NameLines(d, s, n) ==
    {i \in 1..Len(d) : /\ d[i].is
                       /\ d[i].section = s
                       /\ d[i].field \in {n, n \o Marker}}

\* The values of the lines of d from line i on that declare n[] while s is
\* current, in the order of the lines.
RECURSIVE MarkedValues(_, _, _, _)
MarkedValues(d, s, n, i) ==
    IF i > Len(d) THEN <<>>
    ELSE (IF d[i].is /\ d[i].section = s /\ d[i].field = n \o Marker
          THEN <<d[i].translation>>
          ELSE <<>>) \o MarkedValues(d, s, n, i + 1)

\* The name n is declared in s by a line of d, and first as n[].
FirstAsMarked(d, s, n) ==
    \E i \in NameLines(d, s, n) :
        /\ \A j \in NameLines(d, s, n) : i <= j
        /\ d[i].field = n \o Marker

\* The sections and names that a line of d declares with the marker.
MarkedNames(d) ==
    {<<d[i].section, SubSeq(d[i].field, 1, Len(d[i].field) - 2)>> :
        i \in {j \in 1..Len(d) : /\ d[j].is
                                 /\ d[j].section # <<>>
                                 /\ HasMarker(d[j].field)}}

-----------------------------------------------------------------------------
\* The line that parseLine is about to be called with is a translation line
\* without the marker whose key the current section already holds.
PlainDuplicate ==
    /\ pc = "parsing"
    /\ idx <= Len(tokens)
    /\ DeclsFrom(lang.m_currentSection, idx, idx)[1].is
    /\ ~HasMarker(DeclsFrom(lang.m_currentSection, idx, idx)[1].field)
    /\ lang.m_currentSection \in DOMAIN lang.m_translationDict
    /\ DeclsFrom(lang.m_currentSection, idx, idx)[1].field
          \in DOMAIN lang.m_translationDict[lang.m_currentSection]

\* The value stored in the current section under the field of the line that
\* parseLine is about to be called with, in the object l.
StoredForLine(l) ==
    l.m_translationDict[lang.m_currentSection][
        DeclsFrom(lang.m_currentSection, idx, idx)[1].field]

\* C3 as claimed: processing a translation line without the marker whose key
\* the current section already holds makes the value of the line the stored
\* value of the key.
C3_LastWriteWins ==
    [][PlainDuplicate =>
          StoredForLine(lang') =
              DeclsFrom(lang.m_currentSection, idx, idx)[1].translation]_vars

\* C3 as amended: processing such a line leaves the stored value of the key
\* as it was (the first declaration of a key wins).
C3_FirstWriteWins ==
    [][PlainDuplicate => StoredForLine(lang') = StoredForLine(lang)]_vars

\* A translation line without the marker was processed whose key was already
\* stored with another value, after a declaration in either syntax.
C3_Witness ==
    /\ pc \in {"parsing", "ready"}
    /\ idx >= 3
    /\ LET d == Decls(idx - 1)
           last == d[idx - 1]
       IN  /\ last.is
           /\ last.section # <<>>
           /\ ~HasMarker(last.field)
           /\ \E i \in 1..(idx - 2) :
                 /\ d[i].is
                 /\ d[i].section = last.section
                 /\ d[i].field = last.field \o Marker
           /\ last.field \in DOMAIN lang.m_translationDict[last.section]
           /\ lang.m_translationDict[last.section][last.field]
                 # last.translation

-----------------------------------------------------------------------------
\* C6 as claimed: parsing has failed as soon as a lang_ver line of the root
\* scope was processed whose value is not three dot-separated non-negative
\* integers, so no such line lies behind a parse that goes on or has
\* returned a document.
C6_MalformedVersionFails ==
    LET d == Decls(Processed)
    IN  \A i \in RootVersionLines(d) : WellFormedVersion(d[i].translation)

-----------------------------------------------------------------------------
\* The lines of a text: what lies between its newlines.
LinesOf(t) == SplitKeep(t, "\n")

\* A line of the text declares the field lang_ver.
HasLangVerLine(t) ==
    \E i \in 1..Len(LinesOf(t)) :
        LET c == removeInlineComments(LinesOf(t)[i])
        IN  /\ ~isEmptyOrComment(LinesOf(t)[i])
            /\ isTranslation(c).ok
            /\ isTranslation(c).outFieldName = LANG_VER_FIELD

\* No line of the text is a header or a translation line.
NothingRecognised(t) ==
    \A i \in 1..Len(LinesOf(t)) :
        LET c == removeInlineComments(LinesOf(t)[i])
        IN  \/ isEmptyOrComment(LinesOf(t)[i])
            \/ (~isSection(c, <<>>).ok /\ ~isTranslation(c).ok)

OnlyNewlines(t) == \A i \in 1..Len(t) : t[i] = "\n"

-----------------------------------------------------------------------------
(* Claims about getString                                                  *)

\* getString returned a value to its caller: result holds the call.
Returned == pc = "ready" /\ result.op = "getString" /\ result.value.has

\* The value stored for the field the last call of getString looked up.
RawOfResult == lang.m_translationDict[result.section][result.field]

\* pat lies in s at position i (counted from 1).
OccursAt(s, pat, i) ==
    i + Len(pat) - 1 <= Len(s) /\ SubSeq(s, i, i + Len(pat) - 1) = pat

Occurs(s, pat) == \E i \in 1..Len(s) : OccursAt(s, pat, i)

NoDollar(s) == \A i \in 1..Len(s) : s[i] # "$"

\* s with the pattern at position i replaced by v.
ReplaceAt(s, pat, i, v) ==
    SubSeq(s, 1, i - 1) \o v \o SubSeq(s, i + Len(pat), Len(s))

\* s holds the pattern at position i and no "$" outside of it.
OnlyPlaceholderAt(s, pat, i) ==
    OccursAt(s, pat, i) /\ NoDollar(ReplaceAt(s, pat, i, <<>>))

\* C4 as claimed: a call of getString with expandVariables = false that
\* finds the field returns the stored value unchanged, placeholders and all.
C4_RawWhenNotExpanded ==
    (Returned /\ ~result.expandVariables) => result.value.val = RawOfResult

\* No registered callback returns the placeholder of its own name.  (With
\* one that does, the loop of getString replaces a placeholder by itself and
\* its state never changes again.)
NoSelfReference ==
    \A n \in DOMAIN callbackList :
        callbackResult(callbackList[n], n) # Placeholder(n)

\* C5 as claimed: every call of getString returns or fails, its loop does
\* not go on forever; stated for the registries in which no callback returns
\* its own placeholder, where a chain of expansions can still lead back to a
\* variable.
C5_ExpansionTerminates ==
    (pc = "expanding" /\ NoSelfReference) ~> (pc # "expanding")

\* C8 as claimed: when the stored value holds one placeholder, ${n} with n
\* a field of the same section whose value holds no placeholder and for
\* which no expander exists, getString returns the value with the
\* placeholder replaced by the value of n.
C8_FieldPlaceholder ==
    Returned =>
        \A n \in DOMAIN lang.m_translationDict[result.section] :
            \A i \in 1..Len(RawOfResult) :
                ( /\ OnlyPlaceholderAt(RawOfResult, Placeholder(n), i)
                  /\ n \notin DOMAIN callbackList
                  /\ n \notin defaultExpanderNames
                  /\ NoDollar(lang.m_translationDict[result.section][n]) )
                => result.value.val =
                       ReplaceAt(RawOfResult, Placeholder(n), i,
                                 lang.m_translationDict[result.section][n])

\* C9 as claimed: when the stored value holds one placeholder,
\* ${section:field} with a section and a field of the document whose value
\* holds no placeholder, getString returns the value with the placeholder
\* replaced by the value of that field.
C9_CrossReference ==
    Returned =>
        \A s \in DOMAIN lang.m_translationDict :
            \A n \in DOMAIN lang.m_translationDict[s] :
                \A i \in 1..Len(RawOfResult) :
                    ( /\ OnlyPlaceholderAt(RawOfResult,
                                           Placeholder(s \o <<":">> \o n), i)
                      /\ NoDollar(lang.m_translationDict[s][n]) )
                    => result.value.val =
                           ReplaceAt(RawOfResult,
                                     Placeholder(s \o <<":">> \o n), i,
                                     lang.m_translationDict[s][n])

\* s with every occurrence of pat, from position i on, replaced by v.
RECURSIVE ReplaceAllFrom(_, _, _, _)
ReplaceAllFrom(s, pat, v, i) ==
    IF i > Len(s) THEN s
    ELSE IF OccursAt(s, pat, i)
    THEN ReplaceAllFrom(ReplaceAt(s, pat, i, v), pat, v, i + Len(v))
    ELSE ReplaceAllFrom(s, pat, v, i + 1)

\* s with every placeholder of a name of names replaced by what the
\* callback registered for the name returns.
RECURSIVE SubstCustom(_, _)
SubstCustom(s, names) ==
    IF names = {} THEN s
    ELSE LET n == CHOOSE x \in names : TRUE
         IN  SubstCustom(
                 ReplaceAllFrom(s, Placeholder(n),
                                callbackResult(callbackList[n], n), 1),
                 names \ {n})

\* The registered names whose placeholder the stored value holds.
CustomIn(s) == {n \in DOMAIN callbackList : Occurs(s, Placeholder(n))}

\* C10: when the placeholders of the stored value all name registered
\* callbacks, and these return text without placeholders, getString returns
\* the value with every placeholder replaced by what the callback of its
\* name returns, for the name of a default expander as for any other.
C10_CustomFirst ==
    ( /\ Returned
      /\ CustomIn(RawOfResult) # {}
      /\ \A n \in CustomIn(RawOfResult) :
             NoDollar(callbackResult(callbackList[n], n))
      /\ NoDollar(SubstCustom(RawOfResult, CustomIn(RawOfResult))) )
    => result.value.val = SubstCustom(RawOfResult, CustomIn(RawOfResult))

\* getString returned the text of a callback registered for date, the name
\* of a default expander.
C10_Witness ==
    /\ Returned
    /\ Chars("date") \in CustomIn(RawOfResult)
    /\ Chars("date") \in defaultExpanderNames
    /\ NoDollar(callbackResult(callbackList[Chars("date")], Chars("date")))
    /\ result.value.val = callbackResult(callbackList[Chars("date")], Chars("date"))

-----------------------------------------------------------------------------
(* Claims about the list of callbacks                                      *)

\* The step is a call of addVarExpansionCallback, of removeVarExpansionCallback.
AddStep == result' # result /\ result'.op = "addVarExpansionCallback"

RemoveStep == result' # result /\ result'.op = "removeVarExpansionCallback"

\* C11: addVarExpansionCallback(varName, cb) returns true exactly when no
\* callback is registered for varName at the call; it then registers cb and
\* touches no other name, and when it returns false the list is unchanged,
\* so the callback registered first stays.
C11_AddReturnsInserted ==
    [][AddStep =>
          /\ result'.value = (result'.varName \notin DOMAIN callbackList)
          /\ result'.value =>
                callbackList' = Put(callbackList, result'.varName, result'.cb)
          /\ ~result'.value => callbackList' = callbackList]_vars

\* addVarExpansionCallback returned false for a callback other than the one
\* registered, and the one registered is still there.
C11_Witness ==
    /\ result.op = "addVarExpansionCallback"
    /\ ~result.value
    /\ result.varName \in DOMAIN callbackList
    /\ callbackList[result.varName] # result.cb

\* C12 as claimed: a call of addVarExpansionCallback for a name that has a
\* callback replaces it; afterwards the name resolves to the new callback.
C12_AddOverwrites ==
    [][(AddStep /\ result'.varName \in DOMAIN callbackList) =>
          callbackList'[result'.varName] = result'.cb]_vars

\* C12 as amended: a call of addVarExpansionCallback for a name that has a
\* callback keeps it; afterwards the name resolves as before, for every
\* clock, and the call returned false.
C12_AddKeepsFirst ==
    [][(AddStep /\ result'.varName \in DOMAIN callbackList) =>
          /\ ~result'.value
          /\ callbackList'[result'.varName] = callbackList[result'.varName]
          /\ \A clock \in Clocks :
                expandVariable(result'.varName, callbackList', clock)
                    = expandVariable(result'.varName, callbackList, clock)]_vars

\* After a second registration for site, with a callback that returns
\* another text than the first, site still resolves to the text of the
\* first.
C12_Witness ==
    /\ result.op = "addVarExpansionCallback"
    /\ result.varName = Chars("site")
    /\ ~result.value
    /\ \A clock \in Clocks :
          /\ expandVariable(Chars("site"), callbackList, clock).value
                 = callbackResult(callbackList[Chars("site")], Chars("site"))
          /\ expandVariable(Chars("site"), callbackList, clock).value
                 # callbackResult(result.cb, Chars("site"))

\* C13: in every state, a name of a default expander that has no callback
\* resolves to what its default expander returns, whatever calls of
\* addVarExpansionCallback and removeVarExpansionCallback came before; and a
\* call of getString on a value that is one such placeholder returns what
\* the default expander returns.
C13_DefaultsStay ==
    /\ \A n \in defaultExpanderNames \ DOMAIN callbackList :
          \A clock \in Clocks :
              expandVariable(n, callbackList, clock)
                  = [kind |-> "value", value |-> defaultExpandersList(n, clock)]
    /\ Returned =>
          \A n \in defaultExpanderNames \ DOMAIN callbackList :
              RawOfResult = Placeholder(n) =>
                  \E clock \in Clocks :
                      result.value.val = defaultExpandersList(n, clock)

\* The callback registered for date, the name of a default expander, was
\* just removed.
C13_Witness ==
    /\ result.op = "removeVarExpansionCallback"
    /\ result.erased
    /\ result.varName \in defaultExpanderNames
    /\ result.varName \notin DOMAIN callbackList
    /\ \E clock \in Clocks :
          expandVariable(result.varName, callbackList, clock).value
              = dateExpander(clock)

\* C14: removeVarExpansionCallback(varName) leaves no callback for varName,
\* whether there was one or not, and leaves every other name with its
\* callback; a call of addVarExpansionCallback for varName that follows it
\* returns true.
C14_RemoveOnlyThatName ==
    [][/\ RemoveStep =>
             /\ DOMAIN callbackList' = DOMAIN callbackList \ {result'.varName}
             /\ \A n \in DOMAIN callbackList' : callbackList'[n] = callbackList[n]
       /\ ( /\ result.op = "removeVarExpansionCallback"
            /\ AddStep
            /\ result'.varName = result.varName ) => result'.value]_vars

\* removeVarExpansionCallback erased the callback of one name while another
\* name had one, which is still there.
C14_Witness ==
    /\ result.op = "removeVarExpansionCallback"
    /\ result.erased
    /\ DOMAIN callbackList # {}
    /\ result.varName \notin DOMAIN callbackList

-----------------------------------------------------------------------------
(* Claims about what getString and getSection return                       *)

\* An identifier: a letter or underscore, then letters, digits, underscores.
IsIdent(w) ==
    /\ w # <<>>
    /\ w[1] \in UpperCase \cup LowerCase \cup {"_"}
    /\ \A j \in 1..Len(w) : w[j] \in UpperCase \cup LowerCase \cup Digits \cup {"_"}

\* A variable name: an identifier, or two identifiers with a colon between.
IsVarName(w) ==
    \/ IsIdent(w)
    \/ \E k \in 1..Len(w) :
          /\ w[k] = ":"
          /\ IsIdent(SubSeq(w, 1, k - 1))
          /\ IsIdent(SubSeq(w, k + 1, Len(w)))

\* s holds at i..j a placeholder: "${", a variable name, "}".
PlaceholderAt(s, i, j) ==
    /\ i + 3 <= j /\ j <= Len(s)
    /\ s[i] = "$" /\ s[i + 1] = "{" /\ s[j] = "}"
    /\ IsVarName(SubSeq(s, i + 2, j - 1))

HasPlaceholder(s) ==
    \E i \in 1..Len(s), j \in 1..Len(s) : PlaceholderAt(s, i, j)

\* C16 as claimed: a value getString returns for expandVariables = true
\* holds no placeholder of an identifier or of a section:field pair.
C16_FullyLiteral ==
    (Returned /\ result.expandVariables) => ~HasPlaceholder(result.value.val)

\* The variable name w resolves to nothing: it has no callback and no
\* default expander, and it is a name no field of the document has, or a
\* pair section:field of which the document lacks the section or the field.
Unresolvable(w) ==
    /\ w \notin DOMAIN callbackList
    /\ w \notin defaultExpanderNames
    /\ \/ /\ IsIdent(w)
          /\ \A x \in DOMAIN lang.m_translationDict :
                w \notin DOMAIN lang.m_translationDict[x]
       \/ \E k \in 1..Len(w) :
             /\ w[k] = ":"
             /\ IsIdent(SubSeq(w, 1, k - 1))
             /\ IsIdent(SubSeq(w, k + 1, Len(w)))
             /\ \/ SubSeq(w, 1, k - 1) \notin DOMAIN lang.m_translationDict
                \/ SubSeq(w, k + 1, Len(w)) \notin
                       DOMAIN lang.m_translationDict[SubSeq(w, 1, k - 1)]

\* C17 as claimed: when the stored value holds one placeholder and its name
\* resolves to nothing, getString returns the value with the placeholder
\* taken out.
C17_UnknownBecomesEmpty ==
    Returned =>
        \A i \in 1..Len(RawOfResult), j \in 1..Len(RawOfResult) :
            ( /\ PlaceholderAt(RawOfResult, i, j)
              /\ Unresolvable(SubSeq(RawOfResult, i + 2, j - 1))
              /\ NoDollar(SubSeq(RawOfResult, 1, i - 1))
              /\ NoDollar(SubSeq(RawOfResult, j + 1, Len(RawOfResult))) )
            => result.value.val =
                   SubSeq(RawOfResult, 1, i - 1)
                       \o SubSeq(RawOfResult, j + 1, Len(RawOfResult))

\* C18: getSection returns no section exactly for a name under which the
\* document stores none; getString returns no value exactly when the
\* section is missing or lacks the field, and begins its loop otherwise; no
\* exception leaves either.
C18_NoneIffAbsent ==
    /\ result.op = "getSection" =>
          /\ pc = "ready"
          /\ result.value.has = (result.section \in DOMAIN lang.m_translationDict)
    /\ result.op = "getString" =>
          /\ pc \in {"ready", "expanding"}
          /\ (pc = "ready" =>
                 result.value.has =
                     ( /\ result.section \in DOMAIN lang.m_translationDict
                       /\ result.field \in
                              DOMAIN lang.m_translationDict[result.section] ))
          /\ (pc = "expanding" =>
                 /\ result.section \in DOMAIN lang.m_translationDict
                 /\ result.field \in
                        DOMAIN lang.m_translationDict[result.section])

\* getString returned no value for a field that a section of the document
\* lacks.
C18_Witness ==
    /\ pc = "ready"
    /\ result.op = "getString"
    /\ ~result.value.has
    /\ result.section \in DOMAIN lang.m_translationDict
    /\ result.field \notin DOMAIN lang.m_translationDict[result.section]
    /\ lang.m_translationDict[result.section] # EmptyMap

\* The step belongs to a call of getSection or getString.
LookupStep ==
    \/ pc = "expanding"
    \/ (result' # result /\ result'.op \in {"getSection", "getString"})

\* C19: no step of a call of getSection or getString changes the document,
\* whatever the call returns and also when its loop never ends; and the
\* section getSection returns holds the stored values, placeholders and
\* all.
C19_LookupsKeepDocument ==
    [][/\ LookupStep => lang' = lang
       /\ (result'.op = "getSection" /\ result'.value.has) =>
             result'.value.val = lang.m_translationDict[result'.section]]_vars

\* getString returned a value that differs from the stored one, which
\* still holds its placeholder.
C19_Witness ==
    /\ Returned
    /\ result.value.val # RawOfResult
    /\ ~NoDollar(RawOfResult)

-----------------------------------------------------------------------------
(* Claims about lines the parser passes over                               *)

\* The part of a line before its first "#".
BeforeHash(line) ==
    IF Find(line, "#", 0) = NPOS THEN line
    ELSE SubSeq(line, 1, Find(line, "#", 0))

\* The part of a line before its first "=".
BeforeEquals(line) == SubSeq(line, 1, Find(line, "=", 0))

\* The line may be a section header of the file format: "[", an
\* identifier, "]", with blanks around and a comment behind.
MayBeHeader(line) ==
    LET b == trim(BeforeHash(line), DefaultTrim)
    IN  /\ Len(b) >= 3
        /\ b[1] = "[" /\ b[Len(b)] = "]"
        /\ IsIdent(SubSeq(b, 2, Len(b) - 1))

\* The line may be a translation line of the file format: it begins with an
\* identifier, with or without "[]", and an "=".
MayBeTranslation(line) ==
    LET f == trim(BeforeEquals(line), DefaultTrim)
    IN  /\ Find(line, "=", 0) # NPOS
        /\ \/ IsIdent(f)
           \/ (HasMarker(f) /\ IsIdent(SubSeq(f, 1, Len(f) - 2)))

\* C20 as claimed: a turn of the parsing loop on a line that is empty, a
\* comment, or neither a header nor a translation line of the file format
\* throws nothing and leaves the document, its current section included,
\* as it was.
C20_OddLinesChangeNothing ==
    [][( /\ pc = "parsing"
         /\ ~MayBeHeader(tokens[idx])
         /\ ~MayBeTranslation(tokens[idx]) )
       => (pc' # "thrown" /\ lang' = lang)]_vars

-----------------------------------------------------------------------------
(* The classifiers of a line, each called with one line                    *)

\* The names a line begins with: identifiers of one and of more characters,
\* with a digit behind and in front, and a name with a character between
\* "Z" and "a".
LineNames ==
    {Chars("a"), Chars("ab"), Chars("a1"), Chars("1a"), Chars("_x"), Chars("a^")}

LineGaps == {<<>>, <<" ">>}

\* What follows the "=": quoted values, one empty and one with a "#" in it,
\* and a value without quotes.
LineValues ==
    {Chars("\"v\""), Chars("\"\""), Chars("\"a#b\""), Chars("v")}

\* What ends the line: nothing, or a comment, short or long, next to the
\* text or apart from it, one ending in a double quote.
LineComments ==
    {<<>>, Chars(" # c"), Chars("#c"), Chars(" # trailing"), Chars(" # \"q\"")}

\* What stands between the brackets of a line "[...]".
BracketNames ==
    {Chars("a"), Chars("ab"), Chars("a1"), Chars("1a"), Chars("_x"),
     Chars("["), Chars("^"), Chars("a b"), <<>>}

TranslationTexts ==
    {n \o m \o g \o <<"=">> \o h \o v \o c :
        n \in LineNames, m \in {<<>>, Chars("[]")}, g \in LineGaps,
        h \in LineGaps, v \in LineValues, c \in LineComments}

SectionTexts ==
    {g \o <<"[">> \o n \o <<"]">> \o h \o c :
        g \in LineGaps, n \in BracketNames, h \in LineGaps,
        c \in LineComments}

BlankTexts ==
    {<<>>, Chars("  "), Chars("\t"), Chars(" \r "), Chars("# c"),
     Chars("  #c"), Chars("\t# c"), Chars("x"), Chars(" x # c"),
     Chars("]"), Chars("ab"), Chars("ab[]"), Chars("ab []")}

\* The lines the classifiers are called with.
LineTexts == TranslationTexts \cup SectionTexts \cup BlankTexts

\* A language object and one line, text, to hand to its classifiers.
InitLine ==
    /\ text \in LineTexts
    /\ tokens = <<>>
    /\ idx = 0
    /\ lang = NewLanguage
    /\ pc = "line"
    /\ callbackList = EmptyMap
    /\ frames = <<>>
    /\ result = [op |-> "none"]
    /\ threads = <<>>
    /\ localTime = NoTime
    /\ iter = IteratorEnd

\* language::isEmptyOrComment(text)
IsEmptyOrComment ==
    /\ pc = "line"
    /\ result' = [op |-> "isEmptyOrComment", value |-> isEmptyOrComment(text)]
    /\ UNCHANGED <<text, tokens, idx, lang, pc, callbackList, frames,
                 threads, localTime, iter>>

\* language::removeInlineComments(text)
RemoveInlineComments ==
    /\ pc = "line"
    /\ result' = [op |-> "removeInlineComments",
                  value |-> removeInlineComments(text)]
    /\ UNCHANGED <<text, tokens, idx, lang, pc, callbackList, frames,
                 threads, localTime, iter>>

\* language::isSection(text, outSection) with an outSection that is empty
\* or holds a name; given is the outSection before the call.
IsSection ==
    /\ pc = "line"
    /\ \E given \in {<<>>, Chars("old")} :
          LET r == isSection(text, given)
          IN  result' = [op |-> "isSection", value |-> r.ok,
                         given |-> given, outSection |-> r.outSection]
    /\ UNCHANGED <<text, tokens, idx, lang, pc, callbackList, frames,
                 threads, localTime, iter>>

\* language::isTranslation(text, outFieldName, outTranslation)
IsTranslation ==
    /\ pc = "line"
    /\ LET r == isTranslation(text)
       IN  result' = [op |-> "isTranslation", value |-> r.ok,
                      outFieldName |-> r.outFieldName,
                      outTranslation |-> r.outTranslation]
    /\ UNCHANGED <<text, tokens, idx, lang, pc, callbackList, frames,
                 threads, localTime, iter>>

\* language::isMultilineField(text). The two reverse iterators are
\* dereferenced as they are: the first one of an empty text, and the second
\* one of the text "]", stand before the first character, and what is read
\* there is any character. A text of one other character is decided by the
\* first comparison.
IsMultilineField ==
    /\ pc = "line"
    /\ \E value \in IF Len(text) >= 2 THEN {isMultilineField(text)}
                    ELSE IF Len(text) = 1 /\ text[1] # "]" THEN {FALSE}
                    ELSE BOOLEAN :
          result' = [op |-> "isMultilineField", value |-> value]
    /\ UNCHANGED <<text, tokens, idx, lang, pc, callbackList, frames,
                   threads, localTime, iter>>

NextLine ==
    \/ IsMultilineField
    \/ IsEmptyOrComment
    \/ RemoveInlineComments
    \/ IsSection
    \/ IsTranslation

SpecLine == InitLine /\ [][NextLine]_vars

\* The positions of a line that hold neither a space, a tab nor a carriage
\* return.
Ink(line) == {i \in 1..Len(line) : line[i] \notin {" ", "\t", "\r"}}

\* C30: isEmptyOrComment returns true for a line that holds nothing but
\* spaces, tabs and carriage returns and for a line whose first other
\* character is "#", and false for every other line.
C30_EmptyOrComment ==
    result.op = "isEmptyOrComment"
        => (result.value <=>
               \/ Ink(text) = {}
               \/ \E i \in Ink(text) :
                     text[i] = "#" /\ \A j \in Ink(text) : i <= j)

\* isEmptyOrComment has answered true for a comment that begins after blanks.
C30_Witness ==
    /\ result.op = "isEmptyOrComment"
    /\ result.value
    /\ 1 \notin Ink(text)
    /\ \E i \in Ink(text) : text[i] = "#"

\* The line without the blanks at its two ends.
Inked(line) ==
    IF Ink(line) = {} THEN <<>>
    ELSE SubSeq(line,
                CHOOSE i \in Ink(line) : \A j \in Ink(line) : i <= j,
                CHOOSE i \in Ink(line) : \A j \in Ink(line) : j <= i)

\* The positions of the "#" of a line that stand outside a quoted value:
\* an even number of double quotes stands before them.
OuterHashes(line) ==
    {i \in 1..Len(line) :
        /\ line[i] = "#"
        /\ Cardinality({j \in 1..(i - 1) : line[j] = "\""}) % 2 = 0}

\* The line up to its trailing comment.
BeforeComment(line) ==
    IF OuterHashes(line) = {} THEN line
    ELSE SubSeq(line, 1,
                (CHOOSE i \in OuterHashes(line) :
                    \A j \in OuterHashes(line) : i <= j) - 1)

\* C24 as claimed: removeInlineComments returns the line up to its first
\* "#" outside the quoted value, without the blanks at its two ends,
\* whatever the length and the last character of the comment; a "#" inside
\* the quoted value stays.
C24_TrailingCommentRemoved ==
    result.op = "removeInlineComments"
        => result.value = Inked(BeforeComment(text))

\* The line is "[", an identifier, "]", with blanks around or without.
BracketedIdent(line) ==
    LET b == Inked(line)
    IN  /\ Len(b) >= 3
        /\ b[1] = "[" /\ b[Len(b)] = "]"
        /\ IsIdent(SubSeq(b, 2, Len(b) - 1))

\* C25 as claimed: isSection accepts a line exactly when the line without
\* the blanks around it is "[", an identifier, "]", the identifier being a
\* letter or an underscore and then letters, digits and underscores; a name
\* that begins with a digit or holds another character, a bracket for one,
\* is rejected.
C25_SectionIffBracketedIdent ==
    result.op = "isSection" => (result.value <=> BracketedIdent(text))

\* A field name of the file format: an identifier, with "[]" behind it or
\* without.
IsFieldName(f) ==
    \/ IsIdent(f)
    \/ (HasMarker(f) /\ IsIdent(SubSeq(f, 1, Len(f) - 2)))

\* The ways to read a line as a field name, blanks, "=", blanks and a
\* value between double quotes that holds none: the name and the value of
\* each. There is one way at most.
TranslationParts(line) ==
    LET n == Len(line)
        Blanks(i, j) == i <= j /\ \A k \in i..j : line[k] \in {" ", "\t"}
    IN  {[field |-> SubSeq(line, 1, a), value |-> SubSeq(line, q + 1, n - 1)] :
            <<a, e, q>> \in
                {<<a, e, q>> \in (1..n) \X (1..n) \X (1..n) :
                    /\ IsFieldName(SubSeq(line, 1, a))
                    /\ Blanks(a + 1, e - 1)
                    /\ line[e] = "="
                    /\ Blanks(e + 1, q - 1)
                    /\ line[q] = "\""
                    /\ q < n
                    /\ line[n] = "\""
                    /\ \A k \in (q + 1)..(n - 1) : line[k] # "\""}}

\* C26 as claimed: isTranslation accepts exactly the lines made of an
\* identifier of one character or more, with "[]" behind it or without,
\* blanks, "=", blanks and a value between double quotes that holds no
\* double quote; it then returns the name with its "[]" and the value
\* without its quotes.
C26_TranslationIffForm ==
    result.op = "isTranslation"
        => /\ result.value <=> TranslationParts(text) # {}
           /\ result.value
                 => [field |-> result.outFieldName,
                     value |-> result.outTranslation] \in TranslationParts(text)

-----------------------------------------------------------------------------
(* Claims about the root scope and the sections                            *)

\* The three fields of the document that the reserved names set.
Metadata(l) == <<l.m_langId, l.m_langDescription, l.m_langVer>>

\* A header was accepted among the first k lines.
HeaderAmong(k) == \E i \in 1..k : Decls(k)[i].header

\* C21: while no header was accepted, a turn of the parsing loop on a
\* translation line named lang_id or lang_desc sets that one field of the
\* document to the value of the line, a turn on a translation line with
\* another name than the three reserved ones leaves the document as it
\* was, and no turn changes the dictionary of sections.
C21_RootScopeLines ==
    [][(pc = "parsing" /\ ~HeaderAmong(idx - 1))
       => LET d == Decls(idx)[idx]
          IN  /\ lang'.m_translationDict = lang.m_translationDict
              /\ (d.is /\ d.field = LANG_ID_FIELD)
                    => lang' = [lang EXCEPT !.m_langId = d.translation]
              /\ (d.is /\ d.field = LANG_DESC_FIELD)
                    => lang' = [lang EXCEPT !.m_langDescription = d.translation]
              /\ (d.is /\ d.field \notin
                              {LANG_ID_FIELD, LANG_DESC_FIELD, LANG_VER_FIELD})
                    => lang' = lang]_vars

\* No header was accepted; a lang_desc line gave the description, a line
\* with another name was passed, and the dictionary is empty.
C21_Witness ==
    /\ pc \in {"parsing", "ready"}
    /\ ~HeaderAmong(Processed)
    /\ LET d == Decls(Processed)
       IN  /\ \E i \in 1..Processed :
                 /\ d[i].is /\ d[i].field = LANG_DESC_FIELD
                 /\ lang.m_langDescription = d[i].translation
           /\ \E i \in 1..Processed :
                 d[i].is /\ d[i].field \notin
                     {LANG_ID_FIELD, LANG_DESC_FIELD, LANG_VER_FIELD}
    /\ lang.m_translationDict = EmptyMap

\* C22 as claimed: once a header was accepted, no turn of the parsing loop
\* changes the identifier, the description or the version of the document.
C22_MetadataFrozenAfterHeader ==
    [][(pc = "parsing" /\ HeaderAmong(idx - 1))
       => Metadata(lang') = Metadata(lang)]_vars

\* The key a field name of the file format is stored under: the name
\* without the "[]" at its end.
KeyOf(field) ==
    IF HasMarker(field) THEN SubSeq(field, 1, Len(field) - 2) ELSE field

\* C23: a header stores nothing. Every section of the dictionary, and
\* every field k of a section s, comes from a translation line with the
\* key k that was reached when s was the name of the header accepted
\* last; a section whose header no translation line follows is not in the
\* dictionary, so that getSection returns nothing for it.
C23_HeaderStoresNothing ==
    pc \in {"parsing", "ready", "expanding"}
        => LET d == Decls(Processed)
           IN  \A s \in DOMAIN lang.m_translationDict :
                  /\ \E i \in 1..Processed : d[i].is /\ d[i].section = s
                  /\ \A k \in DOMAIN lang.m_translationDict[s] :
                        \E i \in 1..Processed :
                           /\ d[i].is
                           /\ d[i].section = s
                           /\ KeyOf(d[i].field) = k

\* The text is parsed; it holds a header that no translation line follows,
\* whose section getSection does not find, and a section with a field.
C23_Witness ==
    /\ Parsed
    /\ lang.m_translationDict # EmptyMap
    /\ \E i \in 1..Processed :
          /\ Decls(Processed)[i].header
          /\ IsIdent(Decls(Processed)[i].name)
          /\ ~getSection(lang, Decls(Processed)[i].name).has

\* C27: no key of a section ends in "[]", and a translation line in a
\* section whose name is a field name of the file format is found under
\* its name without the "[]", unchanged otherwise.
C27_KeysWithoutMarker ==
    pc \in {"parsing", "ready", "expanding"}
        => LET d == Decls(Processed)
           IN  /\ \A s \in DOMAIN lang.m_translationDict :
                     \A k \in DOMAIN lang.m_translationDict[s] : ~HasMarker(k)
               /\ \A i \in 1..Processed :
                     (d[i].is /\ d[i].section # <<>> /\ IsFieldName(d[i].field))
                        => /\ d[i].section \in DOMAIN lang.m_translationDict
                           /\ KeyOf(d[i].field) \in
                                  DOMAIN lang.m_translationDict[d[i].section]

\* A line that declares name[] was stored; the section holds the key name.
C27_Witness ==
    /\ Parsed
    /\ \E i \in 1..Processed :
          LET d == Decls(Processed)[i]
          IN  /\ d.is
              /\ HasMarker(d.field)
              /\ d.section \in DOMAIN lang.m_translationDict
              /\ KeyOf(d.field) \in DOMAIN lang.m_translationDict[d.section]
              /\ d.field \notin DOMAIN lang.m_translationDict[d.section]

\* C29 as claimed: a turn of the parsing loop on a lang_ver line of the
\* root scope whose value is "v" and then M.N.R throws nothing and gives
\* the document the version that the value M.N.R without the "v" gives it.
C29_LeadingVAccepted ==
    [][pc = "parsing"
       => LET d == Decls(idx)[idx]
              w == Tail(d.translation)
          IN  ( /\ d.is /\ d.section = <<>> /\ d.field = LANG_VER_FIELD
                /\ d.translation # <<>> /\ d.translation[1] = "v"
                /\ WellFormedVersion(w) )
              => /\ pc' # "thrown"
                 /\ lang'.m_langVer =
                       langversionFromString(w, lang.m_langVer).ver]_vars

-----------------------------------------------------------------------------
(* Two documents, each parsed and read by a thread of its own               *)
(* threads[t] holds what thread t owns: its text, the locals of its call   *)
(* of fromString, its language object, the frames of its call of           *)
(* getString, and timeNow, the time its last call of a default expander    *)
(* read.  localTime is the tm object that localtime fills and returns a    *)
(* pointer to; the threads share it, as they share the list of callbacks.  *)

ThreadIds == {1, 2}

\* The field lines of the documents: a plain text and the two default
\* expanders that read the clock.
ThreadLines ==
    {Chars("name = \"Ann\""),
     Chars("day = \"${date}\""),
     Chars("now = \"${time}\"")}

ThreadDocs == {JoinLines(<<Chars("[sec]"), l>>) : l \in ThreadLines}

\* A thread before it calls fromString with the text t.
NewThread(t) ==
    [text |-> t, tokens |-> <<>>, idx |-> 0, lang |-> NewLanguage,
     pc |-> "start", frames |-> <<>>, timeNow |-> NoTime,
     result |-> [op |-> "none"]]

\* What the single caller of the other specifications owns.
solo == <<text, tokens, idx, lang, pc, callbackList, frames, result, iter>>

InitThreads ==
    /\ text = <<>>
    /\ tokens = <<>>
    /\ idx = 0
    /\ lang = NewLanguage
    /\ pc = "threads"
    /\ callbackList = EmptyMap
    /\ frames = <<>>
    /\ result = [op |-> "none"]
    /\ threads \in [ThreadIds -> {NewThread(t) : t \in ThreadDocs}]
    /\ localTime = NoTime
    /\ iter = IteratorEnd

\* language::fromString(fContents) in thread t, up to its loop.
ThreadFromString(t) ==
    LET th == threads[t]
        split == splitString(th.text, {"\n"}, NPOS)
    IN  /\ th.pc = "start"
        /\ threads' = [threads EXCEPT ![t] =
              [th EXCEPT !.tokens = split.tokens,
                         !.pc = IF split.ok THEN "parsing" ELSE "thrown",
                         !.result = [op |-> "fromString",
                                     thrown |-> IF split.ok THEN "none"
                                                ELSE "runtime_error"],
                         !.lang = NewLanguage,
                         !.idx = 1]]
        /\ UNCHANGED <<solo, localTime>>

\* One turn of the loop of fromString in thread t.
ThreadParseLine(t) ==
    LET th == threads[t]
    IN  /\ th.pc = "parsing"
        /\ th.idx <= Len(th.tokens)
        /\ LET r == parseLine(th.lang, th.tokens[th.idx])
           IN  threads' = [threads EXCEPT ![t] =
                 [th EXCEPT !.lang = r.lang,
                            !.pc = IF r.thrown # "none" THEN "thrown"
                                   ELSE IF th.idx = Len(th.tokens) THEN "ready"
                                   ELSE "parsing",
                            !.result = [op |-> "fromString", thrown |-> r.thrown],
                            !.idx = th.idx + 1]]
        /\ UNCHANGED <<solo, localTime>>

\* language::getString(section, field) in thread t, up to its loop.
ThreadGetString(t) ==
    LET th == threads[t]
    IN  /\ th.pc = "ready"
        /\ \E section \in DOMAIN th.lang.m_translationDict \cup {Chars("nosuch")},
              field \in {Chars("name"), Chars("day"), Chars("now")} :
              LET sect == getSection(th.lang, section)
                  found == sect.has /\ field \in DOMAIN sect.val
              IN  threads' = [threads EXCEPT ![t] =
                    [th EXCEPT !.result = [op |-> "getString",
                                           section |-> section, field |-> field,
                                           expandVariables |-> TRUE,
                                           value |-> Nullopt],
                               !.pc = IF found THEN "expanding" ELSE "ready",
                               !.frames = IF found
                                          THEN <<[section |-> section,
                                                  field |-> field,
                                                  translation |-> sect.val[field]]>>
                                          ELSE <<>>]]
        /\ UNCHANGED <<solo, localTime>>

\* The variable that the innermost call of getString in thread t finds in
\* its translation.
ThreadVariable(t) ==
    containsVariable(threads[t].frames[Len(threads[t].frames)].translation)

\* expandVariable is about to call dateExpander or timeExpander.
ReadsClock(t) ==
    /\ ThreadVariable(t).found
    /\ ThreadVariable(t).outVarName \notin DOMAIN callbackList
    /\ ThreadVariable(t).outVarName \in {Chars("date"), Chars("time")}

\* The frame f with the variable of its translation replaced by v.
ThreadReplaced(f, v) ==
    [f EXCEPT !.translation =
        stringReplace(f.translation,
                      Placeholder(containsVariable(f.translation).outVarName), v)]

\* One test of the loop condition of getString in thread t, when the
\* variable found is not one that reads the clock.
ThreadExpandStep(t) ==
    LET th == threads[t]
        n == Len(th.frames)
        top == th.frames[n]
        cv == ThreadVariable(t)
        ev == expandVariable(cv.outVarName, callbackList, th.timeNow)
        callee == getSection(th.lang, ev.section)
    IN  /\ th.pc = "expanding"
        /\ ~ReadsClock(t)
        /\ threads' = [threads EXCEPT ![t] =
              IF cv.found /\ ev.kind = "value"
              THEN [th EXCEPT !.frames[n] = ThreadReplaced(top, ev.value)]
              ELSE IF cv.found /\ callee.has /\ ev.field \in DOMAIN callee.val
              THEN [th EXCEPT !.frames =
                       Append(th.frames,
                              [section |-> ev.section, field |-> ev.field,
                               translation |-> callee.val[ev.field]])]
              ELSE IF cv.found
              THEN [th EXCEPT !.frames[n] = ThreadReplaced(top, <<>>)]
              ELSE IF n = 1
              THEN [th EXCEPT !.frames = <<>>,
                              !.pc = "ready",
                              !.result.value = Some(top.translation)]
              ELSE [th EXCEPT !.frames =
                       Append(SubSeq(th.frames, 1, n - 2),
                              ThreadReplaced(th.frames[n - 1], top.translation))]]
        /\ UNCHANGED <<solo, localTime>>

\* The first two lines of dateExpander and of timeExpander in thread t:
\* time(nullptr) gives timeNow, and localtime(&timeNow) fills the tm object
\* that all threads share.
ThreadLocaltime(t) ==
    LET th == threads[t]
    IN  /\ th.pc = "expanding"
        /\ ReadsClock(t)
        /\ \E clock \in Clocks :
              /\ threads' = [threads EXCEPT ![t] =
                    [th EXCEPT !.timeNow = clock, !.pc = "formatting"]]
              /\ localTime' = clock
        /\ UNCHANGED solo

\* The rest of dateExpander and of timeExpander in thread t: the fields of
\* the shared tm object are read through the pointer and written to the
\* stream, and getString puts the text in the place of the variable.
ThreadFormat(t) ==
    LET th == threads[t]
        n == Len(th.frames)
        value == defaultExpandersList(ThreadVariable(t).outVarName, localTime)
    IN  /\ th.pc = "formatting"
        /\ threads' = [threads EXCEPT ![t] =
              [th EXCEPT !.frames[n] = ThreadReplaced(th.frames[n], value),
                         !.pc = "expanding"]]
        /\ UNCHANGED <<solo, localTime>>

NextThreads ==
    \E t \in ThreadIds :
        \/ ThreadFromString(t)
        \/ ThreadParseLine(t)
        \/ ThreadGetString(t)
        \/ ThreadExpandStep(t)
        \/ ThreadLocaltime(t)
        \/ ThreadFormat(t)

SpecThreads == InitThreads /\ [][NextThreads]_vars

\* The object that fromString makes of the lines toks from line i on, when
\* it is called alone.
RECURSIVE ParsedAlone(_, _, _)
ParsedAlone(l, toks, i) ==
    IF i > Len(toks) THEN l
    ELSE ParsedAlone(parseLine(l, toks[i]).lang, toks, i + 1)

\* What the loop of getString makes of a translation of the object l when
\* it is called alone and the default expanders read the time timeNow.
RECURSIVE ExpandedAlone(_, _, _)
ExpandedAlone(l, translation, timeNow) ==
    LET cv == containsVariable(translation)
        ev == expandVariable(cv.outVarName, callbackList, timeNow)
        callee == getSection(l, ev.section)
        value == IF ev.kind = "value" THEN ev.value
                 ELSE IF callee.has /\ ev.field \in DOMAIN callee.val
                 THEN ExpandedAlone(l, callee.val[ev.field], timeNow)
                 ELSE <<>>
    IN  IF ~cv.found THEN translation
        ELSE ExpandedAlone(l, stringReplace(translation,
                                            Placeholder(cv.outVarName), value),
                           timeNow)

\* C28 as claimed: when two threads parse and read a document each and
\* their steps interleave, the document of each thread is the one that
\* fromString makes of its text alone, and what each getString returns is
\* what it returns when called alone on that document at the time the
\* thread read.
C28_ThreadsIndependent ==
    \A t \in ThreadIds :
        LET th == threads[t]
            sect == getSection(th.lang, th.result.section)
        IN  th.pc = "ready"
              => /\ th.lang = ParsedAlone(NewLanguage, th.tokens, 1)
                 /\ th.result.op = "getString"
                       => th.result.value =
                             IF sect.has /\ th.result.field \in DOMAIN sect.val
                             THEN Some(ExpandedAlone(th.lang,
                                                     sect.val[th.result.field],
                                                     th.timeNow))
                             ELSE Nullopt

-----------------------------------------------------------------------------
(* Further claims about the classifiers                                    *)

\* C31 as claimed: isMultilineField returns true exactly for a field name
\* that ends in "[]", with a space before the two characters or without,
\* and false for every other name, those of less than two characters
\* included.
C31_MultilineIffMarker ==
    result.op = "isMultilineField" => (result.value <=> HasMarker(text))

\* C32 as claimed: when isSection accepts a line that is "[", an
\* identifier, "]" with blanks before and behind or without, the name it
\* gives is the identifier; when it rejects a line, the name given to it is
\* left as it was.
C32_SectionNameBetweenBrackets ==
    result.op = "isSection"
        => /\ (result.value /\ BracketedIdent(text))
                => result.outSection =
                       SubSeq(Inked(text), 2, Len(Inked(text)) - 1)
           /\ ~result.value => result.outSection = result.given

-----------------------------------------------------------------------------
(* StringSplit in an iterator loop                                         *)
(* iter is the iterator it of a loop that starts with begin(), goes on    *)
(* while it != end(), visits the token it stands at and increments it,     *)
(* over StringSplit(text, delimiter); tokens holds what the loop visited.  *)

\* The inputs of the loop: the texts of up to MaxInputLen characters, two
\* letters and the delimiter.
SplitInputs == SeqsUpTo({"a", "b", ","}, MaxInputLen)

SplitDelimiter == <<",">>

InitSplit ==
    /\ text \in SplitInputs
    /\ tokens = <<>>
    /\ idx = 0
    /\ lang = NewLanguage
    /\ pc = "splitting"
    /\ callbackList = EmptyMap
    /\ frames = <<>>
    /\ result = [op |-> "none"]
    /\ threads = <<>>
    /\ localTime = NoTime
    /\ iter = IteratorNew(text, SplitDelimiter)

\* One test of the loop condition, it != end(): the body and the increment
\* when it holds, the end of the loop when it does not.
SplitLoop ==
    /\ pc = "splitting"
    /\ IF IteratorNe(iter, IteratorEnd)
       THEN /\ tokens' = Append(tokens, IteratorDeref(iter))
            /\ iter' = IteratorInc(iter)
            /\ UNCHANGED pc
       ELSE /\ pc' = "done"
            /\ UNCHANGED <<tokens, iter>>
    /\ UNCHANGED <<text, idx, lang, callbackList, frames, result,
                   threads, localTime>>

\* The delimiters and the values of maxLen that splitString is called
\* with; NPOS is SIZE_MAX, the default.
SplitDelimiterSets == {{","}, {",", "b"}}

SplitMaxLens == {0, 1, 2, NPOS}

\* extensions::splitString(text, delimiters, outTokens, maxLen) with an
\* empty outTokens.
SplitString ==
    /\ pc \in {"splitting", "done"}
    /\ \E delimiters \in SplitDelimiterSets, maxLen \in SplitMaxLens :
          LET r == splitString(text, delimiters, maxLen)
          IN  result' = [op |-> "splitString", delimiters |-> delimiters,
                         maxLen |-> maxLen, value |-> r.ok,
                         outTokens |-> r.tokens]
    /\ UNCHANGED <<text, tokens, idx, lang, pc, callbackList, frames,
                   threads, localTime, iter>>

NextSplit ==
    \/ SplitLoop
    \/ SplitString

SpecSplit == InitSplit /\ [][NextSplit]_vars

\* The non-empty parts of a sequence of texts.
NonEmpty(parts) == SelectSeq(parts, LAMBDA x : x # <<>>)

\* C33 as claimed: when the loop has ended, the tokens it visited are the
\* parts of the text between the delimiters, in order and once each; the
\* empty parts are left out of the comparison.
C33_LoopVisitsEveryToken ==
    pc = "done" => NonEmpty(tokens) = NonEmpty(SplitKeep(text, ","))

\* The positions where a run of characters outside the set D begins in s,
\* and the run that begins at such a position: it goes on to the last
\* character before the next one of D.
RunStarts(s, D) ==
    {i \in 1..Len(s) : s[i] \notin D /\ (i = 1 \/ s[i - 1] \in D)}

RunAt(s, D, i) ==
    SubSeq(s, i, CHOOSE j \in i..Len(s) :
                    /\ \A k \in i..j : s[k] \notin D
                    /\ (j = Len(s) \/ s[j + 1] \in D))

\* The runs of s in the order of the text.
Runs(s, D) ==
    [k \in 1..Cardinality(RunStarts(s, D)) |->
        RunAt(s, D, CHOOSE i \in RunStarts(s, D) :
                       Cardinality({j \in RunStarts(s, D) : j < i}) = k - 1)]

\* C34: splitString with an empty output list leaves in it the maximal
\* non-empty runs of characters that are no delimiters, in the order of the
\* input and maxLen of them at most, and returns true exactly when the
\* list holds a token.
C34_SplitStringRuns ==
    result.op = "splitString"
        => LET runs == Runs(text, result.delimiters)
               n == IF result.maxLen = NPOS \/ result.maxLen > Len(runs)
                    THEN Len(runs) ELSE result.maxLen
           IN  /\ result.outTokens = SubSeq(runs, 1, n)
               /\ result.value <=> (result.outTokens # <<>>)

\* splitString stopped at maxLen tokens of a text that holds more runs,
\* with two delimiters in a row between them.
C34_Witness ==
    /\ result.op = "splitString"
    /\ result.maxLen = 1
    /\ result.value
    /\ Len(Runs(text, result.delimiters)) = 2
    /\ \E i \in 1..(Len(text) - 1) :
          text[i] \in result.delimiters /\ text[i + 1] \in result.delimiters

-----------------------------------------------------------------------------
(* A header that occurs more than once                                     *)

IsPrefix(s, t) == Len(s) <= Len(t) /\ SubSeq(t, 1, Len(s)) = s

\* C35: fields accumulate in a section whatever the number of its headers.
\* A call of parseLine, with a header that occurred before or with any
\* other line, leaves every section of the dictionary in it and every
\* field of a section in that section, with a value that begins with the
\* value stored before the call.
C35_SectionsAccumulate ==
    [][pc = "parsing" =>
          \A s \in DOMAIN lang.m_translationDict :
             /\ s \in DOMAIN lang'.m_translationDict
             /\ \A k \in DOMAIN lang.m_translationDict[s] :
                   /\ k \in DOMAIN lang'.m_translationDict[s]
                   /\ IsPrefix(lang.m_translationDict[s][k],
                               lang'.m_translationDict[s][k])]_vars

\* The text is parsed; the header of a section occurs twice, a field was
\* declared after the first header and again, with the marker, after the
\* second, and the section holds both values under the key.
C35_Witness ==
    /\ Parsed
    /\ LET d == Decls(Len(tokens))
       IN  \E h1, i, h2, j \in 1..Len(tokens) :
              /\ h1 < i /\ i < h2 /\ h2 < j
              /\ d[h1].header /\ d[h2].header
              /\ d[h1].name = d[h2].name
              /\ d[i].is /\ d[i].section = d[h1].name
              /\ d[j].is /\ d[j].section = d[h1].name
              /\ HasMarker(d[j].field)
              /\ KeyOf(d[j].field) = KeyOf(d[i].field)
              /\ d[h1].name \in DOMAIN lang.m_translationDict
              /\ KeyOf(d[i].field) \in DOMAIN lang.m_translationDict[d[h1].name]
              /\ lang.m_translationDict[d[h1].name][KeyOf(d[i].field)] =
                    d[i].translation \o <<"\n">> \o d[j].translation

-----------------------------------------------------------------------------
(* Several lang_ver lines                                                  *)

\* What langversion::fromString reads from the one value v into a version
\* as the constructor leaves it.
ReadAlone(v) == langversionFromString(v, NewLanguage.m_langVer).ver

\* C36: a parsed document whose root scope holds several lang_ver lines has
\* the version that one of these lines gives when it is read alone: major,
\* minor and revision all come from the same line.
C36_VersionFromOneLine ==
    Parsed =>
        LET d == Decls(Len(tokens))
        IN  Cardinality(RootVersionLines(d)) >= 2 =>
                \E i \in RootVersionLines(d) :
                    lang.m_langVer = ReadAlone(d[i].translation)

====
